---- MODULE Spec2Model ----
(***************************************************************************)
(* Verification model of the NLB service controller                        *)
(* (DataDog/aws-alb-ingress-controller, packages internal/nlb/lb,          *)
(* internal/nlb/tg, internal/nlb/generator).                               *)
(*                                                                         *)
(* The cloud (ELBv2 / EC2) is a set of load balancers, a set of target     *)
(* groups and a fixed list of VPC subnets.  One Service, default/foo, is   *)
(* reconciled and deleted by a single worker; every cloud call may fail,   *)
(* and the process may restart at any step, losing its local state.        *)
(***************************************************************************)
EXTENDS Integers, Sequences, FiniteSets, TLC

(***************************************************************************)
(* Bounds of the model.                                                    *)
(***************************************************************************)
\* Number of distinct ARN suffixes the cloud hands out; it never hands out the
\* suffix of the load balancer it deleted last.
MaxArn == 2

(***************************************************************************)
(* Strings that the code manipulates character by character are sequences  *)
(* of one-character strings.                                               *)
(***************************************************************************)
Digits == <<"0", "1", "2", "3", "4", "5", "6", "7", "8", "9">>
HexDigits == Digits \o <<"a", "b", "c", "d", "e", "f">>
Letters == <<"a", "b", "c", "d", "e", "f", "g", "h", "i", "j", "k", "l", "m",
             "n", "o", "p", "q", "r", "s", "t", "u", "v", "w", "x", "y", "z">>
UpperLetters == <<"A", "B", "C", "D", "E", "F", "G", "H", "I", "J", "K", "L", "M",
                  "N", "O", "P", "Q", "R", "S", "T", "U", "V", "W", "X", "Y", "Z">>
\* "U+00E9" stands for one character outside ASCII.
Chars == Digits \o Letters \o UpperLetters \o <<"-", ".", "/", "_", "U+00E9">>

Range(s) == {s[i] : i \in 1..Len(s)}

\* POSIX class [[:alnum:]] restricted to the characters of the model.
IsAlnum(c) == c \in Range(Digits) \cup Range(Letters) \cup Range(UpperLetters)

\* Byte value stand-in: the position of the character in Chars.
Code(c) == CHOOSE i \in 1..Len(Chars) : Chars[i] = c

\* Variant of the replacement that leaves every character in place.
ReplaceNothing(s, repl) == s

\* regexp.ReplaceAllString("[[:^alnum:]]", s, repl), repl a string of length 0 or 1.
RECURSIVE ReplaceAllString(_, _)
ReplaceAllString(s, repl) ==
    IF s = <<>> THEN <<>>
    ELSE (IF IsAlnum(Head(s)) THEN <<Head(s)>> ELSE repl) \o ReplaceAllString(Tail(s), repl)

\* Variant of the cut that keeps the whole string.
TruncateNever(s, n) == s

\* s[:n] guarded by len(s) > n.
Truncate(s, n) == IF Len(s) > n THEN SubSeq(s, 1, n) ELSE s

\* Stand-in for hex.EncodeToString(md5.Sum(s)): a 16-bit polynomial hash
\* written as four hexadecimal digits.
RECURSIVE HashValue(_, _)
HashValue(s, acc) ==
    IF s = <<>> THEN acc
    ELSE HashValue(Tail(s), (acc * 31 + Code(Head(s))) % 65536)

md5hex(s) ==
    LET h == HashValue(s, 7)
    IN  << HexDigits[((h \div 4096) % 16) + 1], HexDigits[((h \div 256) % 16) + 1],
           HexDigits[((h \div 16) % 16) + 1], HexDigits[(h % 16) + 1] >>

NameLenLimit == 26

\* Variant of NameLB that leaves the namespace and the service name as they are.
NameLBUnsanitized(NLBNamePrefix, namespace, serviceName) ==
    LET hash == SubSeq(md5hex(namespace \o serviceName), 1, 4)
        name == ReplaceAllString(NLBNamePrefix, <<"-">>) \o <<"-">>
                \o namespace \o <<"-">> \o serviceName
    IN  Truncate(name, NameLenLimit) \o <<"-">> \o hash

NameLB(NLBNamePrefix, namespace, serviceName) ==
    LET hash == SubSeq(md5hex(namespace \o serviceName), 1, 4)
        name == ReplaceAllString(NLBNamePrefix, <<"-">>) \o <<"-">>
                \o ReplaceAllString(namespace, <<>>) \o <<"-">>
                \o ReplaceAllString(serviceName, <<>>)
    IN  Truncate(name, NameLenLimit) \o <<"-">> \o hash

(***************************************************************************)
(* The Service of the model and the controller's configuration.            *)
(***************************************************************************)
Prefix == <<"n", "l", "b">>
Namespace == <<"d", "e", "f", "a", "u", "l", "t">>
ServiceName == <<"f", "o", "o">>
OtherNamespace == <<"k", "u", "b", "e">>
OtherServiceName == <<"b", "a", "r">>

LBName == NameLB(Prefix, Namespace, ServiceName)
ForeignLBName == NameLB(Prefix, Namespace, OtherServiceName)

SchemeInternal == "internal"
SchemeInternetFacing == "internet-facing"
Schemes == {SchemeInternal, SchemeInternetFacing}
IpAddressTypes == {"ipv4", "dualstack"}
LoadBalancerTypeEnumNetwork == "network"

TagNameSubnetInternalELB == "kubernetes.io/role/internal-elb"
TagNameSubnetPublicELB == "kubernetes.io/role/elb"

(***************************************************************************)
(* The VPC: three cluster subnets.  subnet-1 and subnet-3 share an         *)
(* availability zone; subnet-3 carries only the internal marker.           *)
(***************************************************************************)
VpcSubnets ==
    << [SubnetId |-> "subnet-1", AvailabilityZone |-> "az-a", Name |-> "alpha",
        arn |-> <<"arn:aws:ec2:subnet", "subnet-1">>,
        tags |-> {TagNameSubnetInternalELB, TagNameSubnetPublicELB}],
       [SubnetId |-> "subnet-2", AvailabilityZone |-> "az-b", Name |-> "beta",
        arn |-> <<"arn:aws:ec2:subnet", "subnet-2">>,
        tags |-> {TagNameSubnetInternalELB, TagNameSubnetPublicELB}],
       [SubnetId |-> "subnet-3", AvailabilityZone |-> "az-a", Name |-> "gamma",
        arn |-> <<"arn:aws:ec2:subnet", "subnet-3">>,
        tags |-> {TagNameSubnetInternalELB}] >>

\* Lexicographic order of the strings that sort.Strings meets in the model.
StringOrder == <<"subnet-1", "subnet-2", "subnet-3", "subnet-9">>
StrRank(s) == CHOOSE i \in 1..Len(StringOrder) : StringOrder[i] = s
StrLess(a, b) == StrRank(a) < StrRank(b)

\* strings.HasPrefix(s, "subnet-")
HasSubnetPrefix(s) == s \in Range(StringOrder)

RECURSIVE InsertSorted(_, _)
InsertSorted(x, s) ==
    IF s = <<>> THEN <<x>>
    ELSE IF StrLess(Head(s), x) THEN <<Head(s)>> \o InsertSorted(x, Tail(s))
    ELSE <<x>> \o s

\* sort.Strings
RECURSIVE SortStrings(_)
SortStrings(s) == IF s = <<>> THEN <<>> ELSE InsertSorted(Head(s), SortStrings(Tail(s)))

\* All orders in which a listing call may return the elements of S.
Perms(S) ==
    {p \in [1..Cardinality(S) -> S] : \A i, j \in 1..Cardinality(S) : p[i] = p[j] => i = j}

\* cloud.GetSubnetsByNameOrID: the subnets of the VPC whose ID or Name tag is
\* among names.
GetSubnetsByNameOrID(vpc, names) ==
    {sb \in Range(vpc) : sb.SubnetId \in names \/ sb.Name \in names}

\* cloud.GetClusterSubnets: resource ARN -> tag keys of every cluster subnet.
GetClusterSubnets(vpc) == {[arn |-> sb.arn, tags |-> sb.tags] : sb \in Range(vpc)}

\* Variant of subnetIsUsable that takes every subnet.
subnetAlwaysUsable(new, existing) == TRUE

subnetIsUsable(new, existing) ==
    \A i \in 1..Len(existing) : new.AvailabilityZone # existing[i].AvailabilityZone

\* The loop of clusterSubnets over the listing o: keep the first subnet of each zone.
RECURSIVE UsableSubnets(_, _)
UsableSubnets(o, useableSubnets) ==
    IF o = <<>> THEN useableSubnets
    ELSE UsableSubnets(Tail(o),
                       IF subnetIsUsable(Head(o), useableSubnets)
                       THEN Append(useableSubnets, Head(o)) ELSE useableSubnets)

\* clusterSubnets(scheme) in the VPC vpc: the set of results the call can produce.  The
\* iteration order of the tag map and the order of the subnet listing are not
\* fixed, so every order of the listing is a possible run.
clusterSubnets(vpc, scheme) ==
    IF scheme \notin {SchemeInternal, SchemeInternetFacing}
    THEN {[subnets |-> <<>>, err |-> "invalid scheme"]}
    ELSE LET key == IF scheme = SchemeInternal THEN TagNameSubnetInternalELB
                    ELSE TagNameSubnetPublicELB
             subnetIds == {m.arn[Len(m.arn)] : m \in {x \in GetClusterSubnets(vpc) : key \in x.tags}}
             found == GetSubnetsByNameOrID(vpc, subnetIds)
         IN  {[subnets |-> <<>>, err |-> "cloud"]} \cup
             { LET use == UsableSubnets(o, <<>>)
                   out == [i \in 1..Len(use) |-> use[i].SubnetId]
               IN  IF Len(out) < 2 THEN [subnets |-> <<>>, err |-> "unresolved"]
                   ELSE [subnets |-> SortStrings(out), err |-> ""]
               : o \in Perms(found) }

\* resolveSubnets(scheme, in) in the VPC vpc: the set of results the call can produce.
resolveSubnets(vpc, scheme, in) ==
    IF Len(in) = 0 THEN clusterSubnets(vpc, scheme)
    ELSE LET ids == SelectSeq(in, HasSubnetPrefix)
             names == SelectSeq(in, LAMBDA x : ~HasSubnetPrefix(x))
         IN  IF Len(names) > 0
             THEN {[subnets |-> ids, err |-> "cloud"]} \cup
                  { LET subnets == SortStrings(ids \o [i \in 1..Len(o) |-> o[i].SubnetId])
                    IN  IF Len(subnets) # Len(in)
                        THEN [subnets |-> subnets, err |-> "mismatch"]
                        ELSE [subnets |-> subnets, err |-> ""]
                    : o \in Perms(GetSubnetsByNameOrID(vpc, Range(names))) }
             ELSE {[subnets |-> SortStrings(ids), err |-> ""]}

(***************************************************************************)
(* Tags (generator/tag.go) as maps from tag key to value.                  *)
(***************************************************************************)
TagKeyNamespace == "kubernetes.io/namespace"
TagKeyServiceName == "kubernetes.io/service-name"
TagKeyServicePort == "kubernetes.io/service-port"
ClusterTagKey == "kubernetes.io/cluster/c1"
Owned == <<"o", "w", "n", "e", "d">>

EmptyMap == [k \in {} |-> <<>>]

\* for k, v := range src { dst[k] = v }
MapAssignAll(dst, src) ==
    [k \in (DOMAIN dst) \cup (DOMAIN src) |-> IF k \in DOMAIN src THEN src[k] ELSE dst[k]]

tagServiceResources(DefaultTags, namespace, serviceName) ==
    LET m0 == MapAssignAll(EmptyMap, DefaultTags)
        m1 == MapAssignAll(m0, [k \in {ClusterTagKey} |-> Owned])
        m2 == MapAssignAll(m1, [k \in {TagKeyNamespace} |-> namespace])
    IN  MapAssignAll(m2, [k \in {TagKeyServiceName} |-> serviceName])

TagLB(DefaultTags, namespace, serviceName) ==
    tagServiceResources(DefaultTags, namespace, serviceName)

TagTGGroup(DefaultTags, namespace, serviceName) ==
    tagServiceResources(DefaultTags, namespace, serviceName)

TagTG(serviceName, servicePort) ==
    [k \in {TagKeyServiceName, TagKeyServicePort} |->
        IF k = TagKeyServiceName THEN serviceName ELSE servicePort]

(***************************************************************************)
(* Target groups (package tg).                                             *)
(***************************************************************************)
NilStr == "<nil>"
TargetTypeEnumInstance == <<"i", "n", "s", "t", "a", "n", "c", "e">>
TargetTypeEnumIp == <<"i", "p">>
ProtocolEnumTcp == <<"T", "C", "P">>
\* healthcheck.DefaultPort
DefaultPort == <<"t", "r", "a", "f", "f", "i", "c", "-", "p", "o", "r", "t">>
targetGroupDefaultPort == 1

NameTG(NLBNamePrefix, namespace, serviceName, servicePort, targetType, protocol) ==
    LET LBNameOfBackend == NameLB(NLBNamePrefix, namespace, serviceName)
        sum == md5hex(LBNameOfBackend \o serviceName \o servicePort \o protocol \o targetType)
    IN  Truncate(NLBNamePrefix, 12) \o <<"-">> \o Truncate(sum, 19)

\* strconv.Atoi succeeds on s (unsigned decimal strings of the model).
IsInt(s) == Len(s) > 0 /\ \A i \in 1..Len(s) : s[i] \in Range(Digits)

RECURSIVE Atoi(_)
Atoi(s) == IF s = <<>> THEN 0 ELSE Atoi(SubSeq(s, 1, Len(s) - 1)) * 10 + (Code(s[Len(s)]) - 1)

RECURSIVE Itoa(_)
Itoa(n) == IF n < 10 THEN <<Digits[n + 1]>> ELSE Itoa(n \div 10) \o <<Digits[(n % 10) + 1]>>

\* The Service object default/foo as the store holds it.
ServicePorts ==
    << [Name |-> <<"h", "t", "t", "p">>, Port |-> 80, NodePort |-> 31080,
        TargetPort |-> <<"8", "0", "8", "0">>],
       [Name |-> <<"a", "d", "m">>, Port |-> 81, NodePort |-> 0,
        TargetPort |-> <<"9", "0">>] >>

\* k8s.LookupServicePort for a port given by name or by number.
LookupServicePort(ports, port) ==
    {ports[i] : i \in {j \in 1..Len(ports) :
        IF IsInt(port) THEN ports[j].Port = Atoi(port) ELSE ports[j].Name = port}}

\* Variant of resolveServiceHealthCheckPort without the check of the node port.
resolveWithoutNodePortCheck(serviceFound, ports, servicePortAnnotation, targetType) ==
    IF IsInt(servicePortAnnotation)
    THEN [port |-> Itoa(Atoi(servicePortAnnotation)), err |-> "", lookup |-> FALSE]
    ELSE IF servicePortAnnotation = DefaultPort
    THEN [port |-> servicePortAnnotation, err |-> "", lookup |-> FALSE]
    ELSE IF ~serviceFound
    THEN [port |-> servicePortAnnotation, err |-> "service", lookup |-> TRUE]
    ELSE LET found == LookupServicePort(ports, servicePortAnnotation)
         IN  IF found = {} THEN [port |-> servicePortAnnotation, err |-> "port", lookup |-> TRUE]
             ELSE LET resolvedServicePort == CHOOSE x \in found : TRUE
                  IN  IF targetType = TargetTypeEnumInstance
                      THEN [port |-> Itoa(resolvedServicePort.NodePort), err |-> "",
                            lookup |-> TRUE]
                      ELSE [port |-> resolvedServicePort.TargetPort, err |-> "",
                            lookup |-> TRUE]

\* resolveServiceHealthCheckPort on the annotation as intstr.Parse reads it (an
\* Int when strconv.Atoi succeeds); serviceFound tells whether store.GetService
\* succeeds, lookup whether it was called.
resolveServiceHealthCheckPort(serviceFound, ports, servicePortAnnotation, targetType) ==
    IF IsInt(servicePortAnnotation)
    THEN [port |-> Itoa(Atoi(servicePortAnnotation)), err |-> "", lookup |-> FALSE]
    ELSE IF servicePortAnnotation = DefaultPort
    THEN [port |-> servicePortAnnotation, err |-> "", lookup |-> FALSE]
    ELSE IF ~serviceFound
    THEN [port |-> servicePortAnnotation, err |-> "service", lookup |-> TRUE]
    ELSE LET found == LookupServicePort(ports, servicePortAnnotation)
         IN  IF found = {} THEN [port |-> servicePortAnnotation, err |-> "port", lookup |-> TRUE]
             ELSE LET resolvedServicePort == CHOOSE x \in found : TRUE
                  IN  IF targetType = TargetTypeEnumInstance
                      THEN IF resolvedServicePort.NodePort = 0
                           THEN [port |-> servicePortAnnotation, err |-> "nodeport",
                                 lookup |-> TRUE]
                           ELSE [port |-> Itoa(resolvedServicePort.NodePort), err |-> "",
                                 lookup |-> TRUE]
                      ELSE [port |-> resolvedServicePort.TargetPort, err |-> "",
                            lookup |-> TRUE]

IsHttp(protocol) == protocol = "HTTP" \/ protocol = "HTTPS"

\* TGInstanceNeedsModification: "panic" when instance.Matcher is nil (the
\* dereference instance.Matcher.HttpCode), else whether a field differs.
TGInstanceNeedsModification(instance, serviceAnnos) ==
    IF instance.Matcher = NilStr THEN "panic"
    ELSE IF \/ (instance.HealthCheckPath # serviceAnnos.HealthCheck.Path
                /\ IsHttp(serviceAnnos.HealthCheck.Protocol))
            \/ instance.HealthCheckPort # serviceAnnos.HealthCheck.Port
            \/ instance.HealthCheckProtocol # serviceAnnos.HealthCheck.Protocol
            \/ instance.HealthCheckIntervalSeconds # serviceAnnos.HealthCheck.IntervalSeconds
            \/ (instance.Matcher # serviceAnnos.TargetGroup.SuccessCodes
                /\ IsHttp(serviceAnnos.HealthCheck.Protocol))
            \/ instance.HealthyThresholdCount # serviceAnnos.TargetGroup.HealthyThresholdCount
            \/ instance.UnhealthyThresholdCount # serviceAnnos.TargetGroup.UnhealthyThresholdCount
         THEN "modify" ELSE "keep"

\* The target group that CreateTargetGroup makes of newTGInstance's input.
newTGInstance(name, serviceAnnos, healthCheckPort) ==
    [TargetGroupName |-> name,
     TargetGroupArn |-> name,
     HealthCheckIntervalSeconds |-> serviceAnnos.HealthCheck.IntervalSeconds,
     HealthCheckPort |-> healthCheckPort,
     HealthCheckProtocol |-> serviceAnnos.HealthCheck.Protocol,
     TargetType |-> serviceAnnos.TargetGroup.TargetType,
     Protocol |-> serviceAnnos.TargetGroup.BackendProtocol,
     HealthyThresholdCount |-> serviceAnnos.TargetGroup.HealthyThresholdCount,
     UnhealthyThresholdCount |-> serviceAnnos.TargetGroup.UnhealthyThresholdCount,
     Port |-> targetGroupDefaultPort,
     HealthCheckPath |-> IF IsHttp(serviceAnnos.HealthCheck.Protocol)
                         THEN serviceAnnos.HealthCheck.Path ELSE NilStr,
     Matcher |-> IF IsHttp(serviceAnnos.HealthCheck.Protocol)
                 THEN serviceAnnos.TargetGroup.SuccessCodes ELSE NilStr,
     Tags |-> EmptyMap]

\* The target group after the ModifyTargetGroup call of reconcileTGInstance.
modifyTGInstance(instance, serviceAnnos, healthCheckPort) ==
    [instance EXCEPT
        !.HealthCheckIntervalSeconds = serviceAnnos.HealthCheck.IntervalSeconds,
        !.HealthCheckPort = healthCheckPort,
        !.HealthCheckProtocol = serviceAnnos.HealthCheck.Protocol,
        !.HealthyThresholdCount = serviceAnnos.TargetGroup.HealthyThresholdCount,
        !.UnhealthyThresholdCount = serviceAnnos.TargetGroup.UnhealthyThresholdCount,
        !.HealthCheckPath = IF IsHttp(serviceAnnos.HealthCheck.Protocol)
                            THEN serviceAnnos.HealthCheck.Path ELSE NilStr,
        !.Matcher = IF IsHttp(serviceAnnos.HealthCheck.Protocol)
                    THEN serviceAnnos.TargetGroup.SuccessCodes ELSE NilStr]

\* buildTags of the target group controller.
buildTags(DefaultTags, namespace, serviceName, backend, serviceAnnos) ==
    LET t1 == MapAssignAll(EmptyMap, TagTGGroup(DefaultTags, namespace, serviceName))
        t2 == MapAssignAll(t1, TagTG(backend.ServiceName, backend.ServicePort))
    IN  MapAssignAll(t2, serviceAnnos.Tags.LoadBalancer)

(***************************************************************************)
(* Load balancer controller (package lb): pure parts.                      *)
(***************************************************************************)
Nil == [nil |-> TRUE]

buildLBConfig(DefaultTags, NLBNamePrefix, namespace, serviceName, serviceAnnos, subnets) ==
    [Name |-> NameLB(NLBNamePrefix, namespace, serviceName),
     Tags |-> MapAssignAll(TagLB(DefaultTags, namespace, serviceName),
                           serviceAnnos.Tags.LoadBalancer),
     Type |-> LoadBalancerTypeEnumNetwork,
     Scheme |-> serviceAnnos.LoadBalancer.Scheme,
     IpAddressType |-> serviceAnnos.LoadBalancer.IPAddressType,
     Subnets |-> subnets]

\* Variant of validateLBConfig that lets every configuration through.
validateNothing(controllerCfg, namespace, serviceName, config) == TRUE

\* validateLBConfig: TRUE when it returns nil.
validateLBConfig(controllerCfg, namespace, serviceName, config) ==
    IF controllerCfg.RestrictScheme /\ config.Scheme = SchemeInternetFacing
    THEN \E i \in 1..Len(controllerCfg.InternetFacingServices[namespace]) :
            controllerCfg.InternetFacingServices[namespace][i] = serviceName
    ELSE TRUE

\* Variants of isLBInstanceNeedRecreation: one never asks for a recreation,
\* one asks for it on a change of the IP address type as well.
neverNeedRecreation(inst, config) == FALSE
needRecreationOnIpAddressType(inst, config) ==
    inst.Scheme # config.Scheme \/ inst.IpAddressType # config.IpAddressType

isLBInstanceNeedRecreation(inst, config) == inst.Scheme # config.Scheme

\* Variants of the comparisons of reconcileLBInstance: the IP address type
\* is never looked at; the subnets are compared as lists.
ipAddressTypeIgnored(inst, config) == FALSE
subnetsDifferAsLists(inst, config) == inst.AvailabilityZones # config.Subnets

\* reconcileLBInstance: the two comparisons that decide the modifying calls.
ipAddressTypeDiffers(inst, config) == inst.IpAddressType # config.IpAddressType

subnetsDiffer(inst, config) == Range(inst.AvailabilityZones) # Range(config.Subnets)

(***************************************************************************)
(* Inputs of the model.                                                    *)
(***************************************************************************)
BackendA == [ServiceName |-> ServiceName, ServicePort |-> <<"8", "0">>]
BackendB == [ServiceName |-> ServiceName, ServicePort |-> <<"8", "1">>]
BackendLists == {<<BackendA>>, <<BackendA, BackendB>>}

\* Values of the subnets annotation: none (auto-discovery), an explicit list
\* of IDs out of order with a repeated entry, and a list with a name that no
\* subnet carries.
SubnetAnnotations ==
    {<<>>, <<"subnet-2", "subnet-1", "subnet-1">>, <<"subnet-1", "ghost">>}

HealthCheckPorts == {DefaultPort, <<"h", "t", "t", "p">>}

DefaultTags == EmptyMap

ServiceAnnos(scheme, ipAddressType, subnets, healthCheckPort) ==
    [LoadBalancer |-> [Scheme |-> scheme, IPAddressType |-> ipAddressType,
                       Subnets |-> subnets],
     HealthCheck |-> [Port |-> healthCheckPort, Protocol |-> "HTTP", Path |-> "/",
                      IntervalSeconds |-> 10],
     TargetGroup |-> [BackendProtocol |-> ProtocolEnumTcp,
                      TargetType |-> TargetTypeEnumInstance,
                      SuccessCodes |-> "200",
                      HealthyThresholdCount |-> 3, UnhealthyThresholdCount |-> 3],
     Tags |-> [LoadBalancer |-> EmptyMap]]

\* A Service object with its parsed annotations.  Two families of Services are
\* explored: one varies the load balancer annotations over a single backend
\* with the default health check port, the other varies the health check port
\* and the backends over one load balancer configuration.
LBFamily ==
    {[annos |-> ServiceAnnos(sc, ip, sn, DefaultPort), backends |-> <<BackendA>>] :
        sc \in Schemes, ip \in IpAddressTypes, sn \in SubnetAnnotations}
TGFamily ==
    {[annos |-> ServiceAnnos(SchemeInternal, "ipv4", <<>>, hp), backends |-> bs] :
        hp \in HealthCheckPorts, bs \in BackendLists} \ LBFamily
ServiceStates == LBFamily \cup TGFamily
SameFamily(s, t) == (s \in LBFamily) = (t \in LBFamily)

\* Controller configurations: the whitelist of internet-facing services lists
\* foo under its own namespace, or only under another one.
Whitelist(ns) == [n \in {Namespace, OtherNamespace} |-> IF n = ns THEN <<ServiceName>> ELSE <<>>]
ControllerConfigs ==
    {[RestrictScheme |-> FALSE, InternetFacingServices |-> Whitelist(OtherNamespace)],
     [RestrictScheme |-> TRUE, InternetFacingServices |-> Whitelist(OtherNamespace)],
     [RestrictScheme |-> TRUE, InternetFacingServices |-> Whitelist(Namespace)]}

\* A load balancer of another Service that lives in the same account.
ForeignLB ==
    [LoadBalancerName |-> ForeignLBName, LoadBalancerArn |-> 0, Scheme |-> SchemeInternal,
     IpAddressType |-> "ipv4", Type |-> LoadBalancerTypeEnumNetwork,
     Subnets |-> {"subnet-1", "subnet-2"}, Tags |-> EmptyMap, Listeners |-> {}]

(***************************************************************************)
(* State.                                                                  *)
(***************************************************************************)
VARIABLES
    svc,        \* the Service default/foo: parsed annotations and backends
    lbs,        \* cloud: the load balancers of the account
    retiredArn, \* cloud: ARN suffix of the load balancer deleted last, 0 if none
    tgs,        \* cloud: the target groups of the account
    pc,         \* position of the worker inside Reconcile / Delete
    op,         \* the invocation in flight: "Reconcile", "Delete" or "none"
    ctl,        \* validateLBConfig: the controller configuration it read (a local
                \* of the call, gone once ensureLBInstance runs)
    lbConfig,   \* Reconcile: the desired configuration built by buildLBConfig
    found,      \* ensureLBInstance: what GetLoadBalancerByName returned, Nil if nothing
    instance,   \* the load balancer found or created
    tgGroup,    \* Reconcile: the target groups reconciled so far, per backend
    calls,      \* cloud calls issued by the invocation in flight, in order
    trace,      \* stages entered by the invocation in flight, in order
    result,     \* what the invocation returned
    prev,       \* outcome of the previous invocation, "none" after any change
    probe,      \* a function of the controller under test: its inputs and, once
                \* applied, its output (Nil while the controller itself runs)
    watch       \* the event side of the controller: the cache of Services, the
                \* work queue and its workers (Nil while one invocation is followed)

vars == <<svc, lbs, retiredArn, tgs, pc, op, ctl, lbConfig, found, instance, tgGroup,
          calls, trace, result, prev, probe, watch>>

cloud == <<lbs, retiredArn, tgs>>
locals == <<ctl, lbConfig, found, instance, tgGroup>>

Call(name, stage, arg, ok) == [op |-> name, stage |-> stage, arg |-> arg, ok |-> ok]

MutatingOps ==
    {"CreateLoadBalancer", "DeleteLoadBalancer", "SetIpAddressType", "SetSubnets",
     "CreateTargetGroup", "ModifyTargetGroup", "DeleteTargetGroup",
     "ModifyListeners", "DeleteListeners", "AddTags"}

\* The stages of Reconcile, in the order of the code.
Stages == <<"annotations", "build", "validate", "ensure", "attributes",
            "targetgroups", "listeners", "gc">>
StageIndex(st) == CHOOSE i \in 1..Len(Stages) : Stages[i] = st

Init ==
    /\ svc \in ServiceStates
    /\ lbs = {ForeignLB}
    /\ retiredArn = 0
    /\ tgs = {}
    /\ pc = "idle"
    /\ op = "none"
    /\ ctl = Nil
    /\ lbConfig = Nil
    /\ found = Nil
    /\ instance = Nil
    /\ tgGroup = <<>>
    /\ calls = <<>>
    /\ trace = <<>>
    /\ result = Nil
    /\ prev = "none"
    /\ probe = Nil
    /\ watch = Nil

\* return nil, err out of the stage st.
Fail(st) ==
    /\ pc' = "done"
    /\ result' = [ok |-> FALSE, stage |-> st, lb |-> Nil]

\* What GetLoadBalancerByName hands back for the cloud load balancer l, its
\* availability zones listed in the order az.
Describe(l, az) ==
    [LoadBalancerArn |-> l.LoadBalancerArn, LoadBalancerName |-> l.LoadBalancerName,
     DNSName |-> <<"dns", l.LoadBalancerArn>>,
     Scheme |-> l.Scheme, IpAddressType |-> l.IpAddressType, AvailabilityZones |-> az]

\* cloud.GetLoadBalancerByName
GetLoadBalancerByName(name) == {l \in lbs : l.LoadBalancerName = name}

(***************************************************************************)
(* Reconcile (lb controller), one action per stage or cloud call.          *)
(***************************************************************************)
Reconcile_Start ==
    /\ pc = "idle"
    /\ pc' = "annotations"
    /\ op' = "Reconcile"
    /\ UNCHANGED <<probe, watch, svc, cloud, locals, calls, trace, result, prev>>

\* store.GetServiceAnnotations: the store may hold no entry for the key.
Reconcile_GetServiceAnnotations ==
    /\ pc = "annotations"
    /\ trace' = Append(trace, "annotations")
    /\ \E ok \in BOOLEAN :
          IF ok THEN pc' = "build" /\ UNCHANGED result ELSE Fail("annotations")
    /\ UNCHANGED <<probe, watch, svc, cloud, locals, calls, op, prev>>

Reconcile_buildLBConfig ==
    /\ pc = "build"
    /\ trace' = Append(trace, "build")
    /\ \E r \in resolveSubnets(VpcSubnets, svc.annos.LoadBalancer.Scheme,
                              svc.annos.LoadBalancer.Subnets) :
          /\ calls' = IF \A x \in Range(svc.annos.LoadBalancer.Subnets) : HasSubnetPrefix(x)
                         /\ Len(svc.annos.LoadBalancer.Subnets) > 0
                      THEN calls
                      ELSE Append(calls, Call("DescribeSubnets", "build", <<>>, r.err # "cloud"))
          /\ IF r.err = ""
             THEN /\ lbConfig' = buildLBConfig(DefaultTags, Prefix, Namespace, ServiceName,
                                               svc.annos, r.subnets)
                  /\ pc' = "validate"
                  /\ UNCHANGED result
             ELSE Fail("build") /\ UNCHANGED lbConfig
    /\ UNCHANGED <<probe, watch, svc, cloud, ctl, found, instance, tgGroup, op, prev>>

\* validateLBConfig on the configuration that store.GetConfig returns (the
\* whitelist is a dynamic setting, fed by a ConfigMap).
Reconcile_validateLBConfig ==
    /\ pc = "validate"
    /\ trace' = Append(trace, "validate")
    /\ \E controllerCfg \in ControllerConfigs :
          /\ ctl' = controllerCfg
          /\ IF validateLBConfig(controllerCfg, Namespace, ServiceName, lbConfig)
             THEN pc' = "ensure" /\ UNCHANGED result
             ELSE Fail("validate")
    /\ UNCHANGED <<probe, watch, svc, cloud, lbConfig, found, instance, tgGroup, calls, op, prev>>

ensureLBInstance_Get ==
    /\ pc = "ensure"
    /\ trace' = Append(trace, "ensure")
    /\ \E ok \in BOOLEAN :
          /\ calls' = Append(calls, Call("GetLoadBalancerByName", "ensure", lbConfig.Name, ok))
          /\ IF ~ok THEN Fail("ensure") /\ UNCHANGED <<found, instance>>
             ELSE IF GetLoadBalancerByName(lbConfig.Name) = {}
             THEN found' = Nil /\ instance' = Nil /\ pc' = "create" /\ UNCHANGED result
             ELSE \E l \in GetLoadBalancerByName(lbConfig.Name) : \E az \in Perms(l.Subnets) :
                     /\ found' = Describe(l, az)
                     /\ instance' = Describe(l, az)
                     /\ pc' = IF isLBInstanceNeedRecreation(Describe(l, az), lbConfig)
                              THEN "recreate" ELSE "reconcile_ip"
                     /\ UNCHANGED result
    /\ ctl' = Nil
    /\ UNCHANGED <<probe, watch, svc, cloud, lbConfig, tgGroup, op, prev>>

\* Variant of the CreateLoadBalancerInput that leaves the scheme to the
\* default of the cloud.
CreateLoadBalancerInputDefaultScheme(config) ==
    [Name |-> config.Name, Type |-> config.Type, Scheme |-> SchemeInternetFacing,
     IpAddressType |-> config.IpAddressType, Subnets |-> config.Subnets,
     Tags |-> config.Tags]

\* The CreateLoadBalancerInput of newLBInstance.
CreateLoadBalancerInput(config) ==
    [Name |-> config.Name, Type |-> config.Type, Scheme |-> config.Scheme,
     IpAddressType |-> config.IpAddressType, Subnets |-> config.Subnets,
     Tags |-> config.Tags]

\* The load balancer the cloud makes of a CreateLoadBalancerInput.
CreatedLB(in, arn) ==
    [LoadBalancerName |-> in.Name, LoadBalancerArn |-> arn, Scheme |-> in.Scheme,
     IpAddressType |-> in.IpAddressType, Type |-> in.Type, Subnets |-> Range(in.Subnets),
     Tags |-> in.Tags, Listeners |-> {}]

\* The ARN suffix of the next load balancer the cloud creates.
FreshArn == CHOOSE n \in 1..MaxArn : n # retiredArn /\ \A m \in 1..(n - 1) : m = retiredArn

\* Variant of newLBInstance that leaves the instance of a recreate as it was:
\* the load balancer that was deleted.
newLBInstance_KeepOldInstance ==
    /\ pc = "create"
    /\ \E ok \in BOOLEAN :
          /\ calls' = Append(calls, Call("CreateLoadBalancer", "ensure",
                                         CreateLoadBalancerInput(lbConfig), ok))
          /\ IF ok
             THEN /\ lbs' = lbs \cup {CreatedLB(CreateLoadBalancerInput(lbConfig), FreshArn)}
                  /\ retiredArn' = 0
                  /\ instance' = IF instance = Nil
                                 THEN Describe(CreatedLB(CreateLoadBalancerInput(lbConfig),
                                                         FreshArn), lbConfig.Subnets)
                                 ELSE instance
                  /\ pc' = "attributes"
                  /\ UNCHANGED result
             ELSE Fail("ensure") /\ UNCHANGED <<lbs, retiredArn, instance>>
    /\ UNCHANGED <<probe, watch, svc, tgs, ctl, lbConfig, found, tgGroup, trace, op, prev>>

newLBInstance ==
    /\ pc = "create"
    /\ \E ok \in BOOLEAN :
          /\ calls' = Append(calls, Call("CreateLoadBalancer", "ensure",
                                         CreateLoadBalancerInput(lbConfig), ok))
          /\ IF ok
             THEN /\ lbs' = lbs \cup {CreatedLB(CreateLoadBalancerInput(lbConfig), FreshArn)}
                  /\ retiredArn' = 0
                  /\ instance' = Describe(CreatedLB(CreateLoadBalancerInput(lbConfig), FreshArn),
                                          lbConfig.Subnets)
                  /\ pc' = "attributes"
                  /\ UNCHANGED result
             ELSE Fail("ensure") /\ UNCHANGED <<lbs, retiredArn, instance>>
    /\ UNCHANGED <<probe, watch, svc, tgs, ctl, lbConfig, found, tgGroup, trace, op, prev>>

\* Variant of recreateLBInstance that goes on to the create when the delete failed.
recreateLBInstance_IgnoreDeleteError ==
    /\ pc = "recreate"
    /\ \E ok \in BOOLEAN :
          /\ calls' = Append(calls, Call("DeleteLoadBalancer", "ensure",
                                         instance.LoadBalancerArn, ok))
          /\ IF ok
             THEN /\ lbs' = {l \in lbs : l.LoadBalancerArn # instance.LoadBalancerArn}
                  /\ retiredArn' = instance.LoadBalancerArn
             ELSE UNCHANGED <<lbs, retiredArn>>
          /\ pc' = "create"
          /\ UNCHANGED result
    /\ UNCHANGED <<probe, watch, svc, tgs, locals, trace, op, prev>>

recreateLBInstance_Delete ==
    /\ pc = "recreate"
    /\ \E ok \in BOOLEAN :
          /\ calls' = Append(calls, Call("DeleteLoadBalancer", "ensure",
                                         instance.LoadBalancerArn, ok))
          /\ IF ok
             THEN /\ lbs' = {l \in lbs : l.LoadBalancerArn # instance.LoadBalancerArn}
                  /\ retiredArn' = instance.LoadBalancerArn
                  /\ pc' = "create"
                  /\ UNCHANGED result
             ELSE Fail("ensure") /\ UNCHANGED <<lbs, retiredArn>>
    /\ UNCHANGED <<probe, watch, svc, tgs, locals, trace, op, prev>>

\* The cloud after a call that sets field values on the load balancer arn.
SetOnLB(arn, f(_)) == {IF l.LoadBalancerArn = arn THEN f(l) ELSE l : l \in lbs}

reconcileLBInstance_IpAddressType ==
    /\ pc = "reconcile_ip"
    /\ IF ipAddressTypeDiffers(instance, lbConfig)
       THEN \E ok \in BOOLEAN :
               /\ calls' = Append(calls, Call("SetIpAddressType", "ensure",
                                              lbConfig.IpAddressType, ok))
               /\ IF ok
                  THEN /\ lbs' = SetOnLB(instance.LoadBalancerArn,
                                    LAMBDA l : [l EXCEPT !.IpAddressType = lbConfig.IpAddressType])
                       /\ pc' = "reconcile_subnets"
                       /\ UNCHANGED result
                  ELSE Fail("ensure") /\ UNCHANGED lbs
       ELSE pc' = "reconcile_subnets" /\ UNCHANGED <<calls, lbs, result>>
    /\ UNCHANGED <<probe, watch, svc, retiredArn, tgs, locals, trace, op, prev>>

reconcileLBInstance_Subnets ==
    /\ pc = "reconcile_subnets"
    /\ IF subnetsDiffer(instance, lbConfig)
       THEN \E ok \in BOOLEAN :
               /\ calls' = Append(calls, Call("SetSubnets", "ensure", lbConfig.Subnets, ok))
               /\ IF ok
                  THEN /\ lbs' = SetOnLB(instance.LoadBalancerArn,
                                    LAMBDA l : [l EXCEPT !.Subnets = Range(lbConfig.Subnets)])
                       /\ pc' = "reconcile_tags"
                       /\ UNCHANGED result
                  ELSE Fail("ensure") /\ UNCHANGED lbs
       ELSE pc' = "reconcile_tags" /\ UNCHANGED <<calls, lbs, result>>
    /\ UNCHANGED <<probe, watch, svc, retiredArn, tgs, locals, trace, op, prev>>

\* tagsController.ReconcileELB on the load balancer: writes the desired tags
\* when the live ones differ.
reconcileLBInstance_Tags ==
    /\ pc = "reconcile_tags"
    /\ \E ok \in BOOLEAN : \E l \in {x \in lbs : x.LoadBalancerArn = instance.LoadBalancerArn} :
          /\ calls' = Append(calls, Call(IF l.Tags # lbConfig.Tags THEN "AddTags"
                                         ELSE "DescribeTags", "ensure", lbConfig.Tags, ok))
          /\ IF ok
             THEN /\ lbs' = SetOnLB(instance.LoadBalancerArn,
                               LAMBDA x : [x EXCEPT !.Tags = lbConfig.Tags])
                  /\ pc' = "attributes"
                  /\ UNCHANGED result
             ELSE Fail("ensure") /\ UNCHANGED lbs
    /\ UNCHANGED <<probe, watch, svc, retiredArn, tgs, locals, trace, op, prev>>

\* Variant of the attributes stage that does not return on an error.
Reconcile_Attributes_IgnoreError ==
    /\ pc = "attributes"
    /\ trace' = Append(trace, "attributes")
    /\ \E ok \in BOOLEAN :
          /\ calls' = Append(calls, Call("DescribeLoadBalancerAttributes", "attributes",
                                         instance.LoadBalancerArn, ok))
          /\ pc' = "targetgroups"
          /\ UNCHANGED result
    /\ UNCHANGED <<probe, watch, svc, cloud, locals, op, prev>>

\* attrsController.Reconcile on the load balancer (attributes are not varied).
Reconcile_Attributes ==
    /\ pc = "attributes"
    /\ trace' = Append(trace, "attributes")
    /\ \E ok \in BOOLEAN :
          /\ calls' = Append(calls, Call("DescribeLoadBalancerAttributes", "attributes",
                                         instance.LoadBalancerArn, ok))
          /\ IF ok THEN pc' = "targetgroups" /\ UNCHANGED result ELSE Fail("attributes")
    /\ UNCHANGED <<probe, watch, svc, cloud, locals, op, prev>>

(***************************************************************************)
(* Target group controller: Reconcile of one backend, as one step.         *)
(***************************************************************************)
TGFailPoints == {"none", "store", "service", "find", "write", "tags", "attrs", "targets"}

\* What one Reconcile(service, backend) of the target group controller did:
\* the calls it issued, the target groups afterwards, whether it returned a
\* target group (ok), died (panic), and whether the failure point exists on
\* the path taken (valid).
TGOut(backend, arn, valid, ok, panic, cs, ts) ==
    [valid |-> valid, ok |-> ok, panic |-> panic, calls |-> cs, tgs |-> ts,
     tg |-> [backend |-> backend, Arn |-> arn]]

\* The cloud calls of Reconcile(service, backend), in order; the one at failAt fails.
TGCalls(failAt, tgName, need, written, tgTags) ==
    [find |-> <<Call("GetTargetGroupByName", "targetgroups", tgName, failAt # "find")>>,
     write |-> IF need = "create"
               THEN <<Call("CreateTargetGroup", "targetgroups", written, failAt # "write")>>
               ELSE IF need = "modify"
               THEN <<Call("ModifyTargetGroup", "targetgroups", written, failAt # "write")>>
               ELSE <<>>,
     tags |-> <<Call(IF written.Tags # tgTags THEN "AddTags" ELSE "DescribeTags",
                     "targetgroups", tgName, failAt # "tags")>>,
     attrs |-> <<Call("DescribeTargetGroupAttributes", "targetgroups", tgName,
                      failAt # "attrs")>>,
     targets |-> <<Call("DescribeTargetHealth", "targetgroups", tgName,
                        failAt # "targets")>>]

\* Variant of Reconcile(service, backend) that looks the target group up
\* before it loads the annotations.
TGReconcileTagged_LookupFirst(backend, failAt, hcErr, need, existing, written, tagged, c) ==
    IF failAt = "store" THEN TGOut(backend, tagged.TargetGroupArn, TRUE, FALSE, FALSE, c.find, tgs)
    ELSE IF hcErr # ""
    THEN TGOut(backend, tagged.TargetGroupArn,
               IF hcErr = "service" THEN failAt = "service" ELSE failAt = "none",
               FALSE, FALSE, <<>>, tgs)
    ELSE IF failAt = "service"
    THEN TGOut(backend, tagged.TargetGroupArn, FALSE, FALSE, FALSE, <<>>, tgs)
    ELSE IF failAt = "find"
    THEN TGOut(backend, tagged.TargetGroupArn, TRUE, FALSE, FALSE, c.find, tgs)
    ELSE IF need = "panic"
    THEN TGOut(backend, tagged.TargetGroupArn, failAt = "none", FALSE, TRUE, c.find, tgs)
    ELSE IF failAt = "write"
    THEN TGOut(backend, tagged.TargetGroupArn, c.write # <<>>, FALSE, FALSE,
               c.find \o c.write, tgs)
    ELSE IF failAt = "tags"
    THEN TGOut(backend, tagged.TargetGroupArn, TRUE, FALSE, FALSE,
               c.find \o c.write \o c.tags, (tgs \ existing) \cup {written})
    ELSE IF failAt = "attrs"
    THEN TGOut(backend, tagged.TargetGroupArn, TRUE, FALSE, FALSE,
               c.find \o c.write \o c.tags \o c.attrs, (tgs \ existing) \cup {tagged})
    ELSE TGOut(backend, tagged.TargetGroupArn, TRUE, failAt = "none", FALSE,
               c.find \o c.write \o c.tags \o c.attrs \o c.targets,
               (tgs \ existing) \cup {tagged})

\* Variant of Reconcile(service, backend) that goes on to the attributes and
\* the targets after a failed tag reconciliation.
TGReconcileTagged_IgnoreTagError(backend, failAt, hcErr, need, existing, written, tagged, c) ==
    IF failAt = "store" THEN TGOut(backend, tagged.TargetGroupArn, TRUE, FALSE, FALSE, <<>>, tgs)
    ELSE IF hcErr # ""
    THEN TGOut(backend, tagged.TargetGroupArn,
               IF hcErr = "service" THEN failAt = "service" ELSE failAt = "none",
               FALSE, FALSE, <<>>, tgs)
    ELSE IF failAt = "service"
    THEN TGOut(backend, tagged.TargetGroupArn, FALSE, FALSE, FALSE, <<>>, tgs)
    ELSE IF failAt = "find"
    THEN TGOut(backend, tagged.TargetGroupArn, TRUE, FALSE, FALSE, c.find, tgs)
    ELSE IF need = "panic"
    THEN TGOut(backend, tagged.TargetGroupArn, failAt = "none", FALSE, TRUE, c.find, tgs)
    ELSE IF failAt = "write"
    THEN TGOut(backend, tagged.TargetGroupArn, c.write # <<>>, FALSE, FALSE,
               c.find \o c.write, tgs)
    ELSE IF failAt = "attrs"
    THEN TGOut(backend, tagged.TargetGroupArn, TRUE, FALSE, FALSE,
               c.find \o c.write \o c.tags \o c.attrs, (tgs \ existing) \cup {tagged})
    ELSE TGOut(backend, tagged.TargetGroupArn, TRUE, failAt = "none", FALSE,
               c.find \o c.write \o c.tags \o c.attrs \o c.targets,
               (tgs \ existing) \cup {IF failAt = "tags" THEN written ELSE tagged})

\* Reconcile(service, backend) from the tagging on: written is the target
\* group as created, modified or found, c the calls of TGCalls.
TGReconcileTagged(backend, failAt, hcErr, need, existing, written, tagged, c) ==
    IF failAt = "store" THEN TGOut(backend, tagged.TargetGroupArn, TRUE, FALSE, FALSE, <<>>, tgs)
    ELSE IF hcErr # ""
    THEN TGOut(backend, tagged.TargetGroupArn,
               IF hcErr = "service" THEN failAt = "service" ELSE failAt = "none",
               FALSE, FALSE, <<>>, tgs)
    ELSE IF failAt = "service"
    THEN TGOut(backend, tagged.TargetGroupArn, FALSE, FALSE, FALSE, <<>>, tgs)
    ELSE IF failAt = "find"
    THEN TGOut(backend, tagged.TargetGroupArn, TRUE, FALSE, FALSE, c.find, tgs)
    ELSE IF need = "panic"
    THEN TGOut(backend, tagged.TargetGroupArn, failAt = "none", FALSE, TRUE, c.find, tgs)
    ELSE IF failAt = "write"
    THEN TGOut(backend, tagged.TargetGroupArn, c.write # <<>>, FALSE, FALSE,
               c.find \o c.write, tgs)
    ELSE IF failAt = "tags"
    THEN TGOut(backend, tagged.TargetGroupArn, TRUE, FALSE, FALSE,
               c.find \o c.write \o c.tags, (tgs \ existing) \cup {written})
    ELSE IF failAt = "attrs"
    THEN TGOut(backend, tagged.TargetGroupArn, TRUE, FALSE, FALSE,
               c.find \o c.write \o c.tags \o c.attrs, (tgs \ existing) \cup {tagged})
    ELSE TGOut(backend, tagged.TargetGroupArn, TRUE, failAt = "none", FALSE,
               c.find \o c.write \o c.tags \o c.attrs \o c.targets,
               (tgs \ existing) \cup {tagged})

\* Reconcile(service, backend) from the write on: create when no target group
\* of the name exists, modify when TGInstanceNeedsModification says so.
TGReconcileWritten(backend, failAt, hcErr, tgName, need, existing, written, tgTags) ==
    TGReconcileTagged(backend, failAt, hcErr, need, existing, written,
                      [written EXCEPT !.Tags = tgTags],
                      TGCalls(failAt, tgName, need, written, tgTags))

TGReconcileNeed(backend, failAt, hc, tgName, existing, need) ==
    TGReconcileWritten(backend, failAt, hc.err, tgName, need, existing,
        IF need = "create" THEN newTGInstance(tgName, svc.annos, hc.port)
        ELSE IF need = "modify"
        THEN modifyTGInstance(CHOOSE t \in existing : TRUE, svc.annos, hc.port)
        ELSE CHOOSE t \in existing : TRUE,
        buildTags(DefaultTags, Namespace, ServiceName, backend, svc.annos))

\* Variant of Reconcile(service, backend) that creates the target group anew
\* whether or not one of the name exists.
TGReconcileAlwaysCreate(backend, failAt, hc, tgName, existing) ==
    TGReconcileNeed(backend, failAt, hc, tgName, existing, "create")

\* Reconcile(service, backend) from findExistingTGInstance on.
TGReconcileFound(backend, failAt, hc, tgName, existing) ==
    TGReconcileNeed(backend, failAt, hc, tgName, existing,
        IF existing = {} THEN "create"
        ELSE TGInstanceNeedsModification(CHOOSE t \in existing : TRUE, svc.annos))

TGReconcileNamed(backend, failAt, hc, tgName) ==
    TGReconcileFound(backend, failAt, hc, tgName, {t \in tgs : t.TargetGroupName = tgName})

\* Reconcile(service, backend) of the target group controller when the call
\* at failAt (if any) fails.
TGReconcile(backend, failAt) ==
    TGReconcileNamed(backend, failAt,
        resolveServiceHealthCheckPort(failAt # "service", ServicePorts,
                                      svc.annos.HealthCheck.Port,
                                      svc.annos.TargetGroup.TargetType),
        NameTG(Prefix, Namespace, backend.ServiceName, backend.ServicePort,
               svc.annos.TargetGroup.TargetType, svc.annos.TargetGroup.BackendProtocol))

\* tgGroupController.Reconcile: the target group controller on each backend of
\* the Service in turn; the first failure fails the group and the error
\* names the step that failed (cause; "none" when the health check port did
\* not resolve).
Reconcile_TargetGroups ==
    /\ pc = "targetgroups"
    /\ trace' = IF tgGroup = <<>> THEN Append(trace, "targetgroups") ELSE trace
    /\ \E failAt \in TGFailPoints :
          LET o == TGReconcile(svc.backends[Len(tgGroup) + 1], failAt)
          IN  /\ o.valid
              /\ tgs' = o.tgs
              /\ calls' = calls \o o.calls
              /\ IF o.panic
                 THEN pc' = "crashed" /\ UNCHANGED <<tgGroup, result>>
                 ELSE IF o.ok
                 THEN /\ tgGroup' = Append(tgGroup, o.tg)
                      /\ pc' = IF Len(tgGroup) + 1 = Len(svc.backends)
                               THEN "listeners" ELSE "targetgroups"
                      /\ UNCHANGED result
                 ELSE /\ pc' = "done"
                      /\ result' = [ok |-> FALSE, stage |-> "targetgroups", lb |-> Nil,
                                    cause |-> failAt]
                      /\ UNCHANGED tgGroup
    /\ UNCHANGED <<probe, watch, svc, lbs, retiredArn, ctl, lbConfig, found, instance, op, prev>>

GroupArns == {tgGroup[i].Arn : i \in 1..Len(tgGroup)}

\* Variant of the listener stage that runs the GC whatever the listeners did.
Reconcile_Listeners_IgnoreError ==
    /\ pc = "listeners"
    /\ trace' = Append(trace, "listeners")
    /\ \E ok \in BOOLEAN : \E l \in {x \in lbs : x.LoadBalancerArn = instance.LoadBalancerArn} :
          /\ calls' = Append(calls, Call(IF l.Listeners # GroupArns THEN "ModifyListeners"
                                         ELSE "DescribeListeners", "listeners", GroupArns, ok))
          /\ lbs' = IF ok THEN SetOnLB(instance.LoadBalancerArn,
                                       LAMBDA x : [x EXCEPT !.Listeners = GroupArns])
                    ELSE lbs
          /\ pc' = "gc"
          /\ UNCHANGED result
    /\ UNCHANGED <<probe, watch, svc, retiredArn, tgs, locals, op, prev>>

\* lsGroupController.Reconcile: the listeners of the load balancer forward to
\* the target groups of the group, and to nothing else.
Reconcile_Listeners ==
    /\ pc = "listeners"
    /\ trace' = Append(trace, "listeners")
    /\ \E ok \in BOOLEAN : \E l \in {x \in lbs : x.LoadBalancerArn = instance.LoadBalancerArn} :
          /\ calls' = Append(calls, Call(IF l.Listeners # GroupArns THEN "ModifyListeners"
                                         ELSE "DescribeListeners", "listeners", GroupArns, ok))
          /\ IF ok
             THEN /\ lbs' = SetOnLB(instance.LoadBalancerArn,
                               LAMBDA x : [x EXCEPT !.Listeners = GroupArns])
                  /\ pc' = "gc"
                  /\ UNCHANGED result
             ELSE Fail("listeners") /\ UNCHANGED lbs
    /\ UNCHANGED <<probe, watch, svc, retiredArn, tgs, locals, op, prev>>

\* A target group carries the ownership tags of the Service default/foo.
OwnedTG(t) ==
    /\ {ClusterTagKey, TagKeyNamespace, TagKeyServiceName} \subseteq DOMAIN t.Tags
    /\ t.Tags[ClusterTagKey] = Owned
    /\ t.Tags[TagKeyNamespace] = Namespace
    /\ t.Tags[TagKeyServiceName] = ServiceName

\* One DeleteTargetGroup call per target group of S.
RECURSIVE DeleteCalls(_, _)
DeleteCalls(S, stage) ==
    IF S = {} THEN <<>>
    ELSE LET t == CHOOSE x \in S : TRUE
         IN  <<Call("DeleteTargetGroup", stage, t.TargetGroupArn, TRUE)>>
             \o DeleteCalls(S \ {t}, stage)

\* The first DeleteTargetGroup call of a GC or Delete over S, failing.
FailedDeleteCall(S, stage) ==
    <<Call("DeleteTargetGroup", stage, (CHOOSE x \in S : TRUE).TargetGroupArn, FALSE)>>

\* tgGroupController.GC: delete the owned target groups that are not in the
\* group.  The listing of the owned groups or the first delete may fail.
Reconcile_GC ==
    /\ pc = "gc"
    /\ trace' = Append(trace, "gc")
    /\ \E failAt \in {"none", "list", "delete"} :
          LET stale == {t \in tgs : OwnedTG(t) /\ t.TargetGroupArn \notin GroupArns}
          IN  /\ failAt = "delete" => stale # {}
              /\ calls' = calls \o <<Call("GetResourcesByTags", "gc", <<>>, failAt # "list")>>
                                \o (IF failAt = "none" THEN DeleteCalls(stale, "gc")
                                    ELSE IF failAt = "delete" THEN FailedDeleteCall(stale, "gc")
                                    ELSE <<>>)
              /\ IF failAt = "none"
                 THEN /\ tgs' = tgs \ stale
                      /\ pc' = "done"
                      /\ result' = [ok |-> TRUE, stage |-> "",
                                    lb |-> [Arn |-> instance.LoadBalancerArn,
                                            DNSName |-> instance.DNSName]]
                 ELSE Fail("gc") /\ UNCHANGED tgs
    /\ UNCHANGED <<probe, watch, svc, lbs, retiredArn, locals, op, prev>>

(***************************************************************************)
(* Delete (lb controller).                                                 *)
(***************************************************************************)
Delete_Start ==
    /\ pc = "idle"
    /\ pc' = "delete_get"
    /\ op' = "Delete"
    /\ UNCHANGED <<probe, watch, svc, cloud, locals, calls, trace, result, prev>>

\* Variant of the lookup of Delete that reports a missing load balancer as an error.
Delete_Get_MissingIsError ==
    /\ pc = "delete_get"
    /\ \E ok \in BOOLEAN :
          /\ calls' = Append(calls, Call("GetLoadBalancerByName", "delete", LBName, ok))
          /\ IF ~ok \/ GetLoadBalancerByName(LBName) = {}
             THEN Fail("get") /\ UNCHANGED instance
             ELSE \E l \in GetLoadBalancerByName(LBName) : \E az \in Perms(l.Subnets) :
                     /\ instance' = Describe(l, az)
                     /\ pc' = "delete_listeners"
                     /\ UNCHANGED result
    /\ UNCHANGED <<probe, watch, svc, cloud, ctl, lbConfig, found, tgGroup, trace, op, prev>>

Delete_Get ==
    /\ pc = "delete_get"
    /\ \E ok \in BOOLEAN :
          /\ calls' = Append(calls, Call("GetLoadBalancerByName", "delete", LBName, ok))
          /\ IF ~ok THEN Fail("get") /\ UNCHANGED instance
             ELSE IF GetLoadBalancerByName(LBName) = {}
             THEN /\ pc' = "done"
                  /\ result' = [ok |-> TRUE, stage |-> "", lb |-> Nil]
                  /\ UNCHANGED instance
             ELSE \E l \in GetLoadBalancerByName(LBName) : \E az \in Perms(l.Subnets) :
                     /\ instance' = Describe(l, az)
                     /\ pc' = "delete_listeners"
                     /\ UNCHANGED result
    /\ UNCHANGED <<probe, watch, svc, cloud, ctl, lbConfig, found, tgGroup, trace, op, prev>>

\* Variant of the listener step of Delete that goes on when the delete failed.
Delete_Listeners_IgnoreError ==
    /\ pc = "delete_listeners"
    /\ \E ok \in BOOLEAN :
          /\ calls' = Append(calls, Call("DeleteListeners", "delete",
                                         instance.LoadBalancerArn, ok))
          /\ lbs' = IF ok THEN SetOnLB(instance.LoadBalancerArn,
                                       LAMBDA x : [x EXCEPT !.Listeners = {}])
                    ELSE lbs
          /\ pc' = "delete_targetgroups"
          /\ UNCHANGED result
    /\ UNCHANGED <<probe, watch, svc, retiredArn, tgs, locals, trace, op, prev>>

\* lsGroupController.Delete: remove the listeners of the load balancer.
Delete_Listeners ==
    /\ pc = "delete_listeners"
    /\ \E ok \in BOOLEAN :
          /\ calls' = Append(calls, Call("DeleteListeners", "delete",
                                         instance.LoadBalancerArn, ok))
          /\ IF ok
             THEN /\ lbs' = SetOnLB(instance.LoadBalancerArn,
                               LAMBDA x : [x EXCEPT !.Listeners = {}])
                  /\ pc' = "delete_targetgroups"
                  /\ UNCHANGED result
             ELSE Fail("listeners") /\ UNCHANGED lbs
    /\ UNCHANGED <<probe, watch, svc, retiredArn, tgs, locals, trace, op, prev>>

\* tgGroupController.Delete: delete every target group tagged as owned by the key.
Delete_TargetGroups ==
    /\ pc = "delete_targetgroups"
    /\ \E failAt \in {"none", "list", "delete"} :
          LET owned == {t \in tgs : OwnedTG(t)}
          IN  /\ failAt = "delete" => owned # {}
              /\ calls' = calls \o <<Call("GetResourcesByTags", "delete", <<>>, failAt # "list")>>
                                \o (IF failAt = "none" THEN DeleteCalls(owned, "delete")
                                    ELSE IF failAt = "delete" THEN FailedDeleteCall(owned, "delete")
                                    ELSE <<>>)
              /\ IF failAt = "none"
                 THEN tgs' = tgs \ owned /\ pc' = "delete_lb" /\ UNCHANGED result
                 ELSE Fail("targetgroups") /\ UNCHANGED tgs
    /\ UNCHANGED <<probe, watch, svc, lbs, retiredArn, locals, trace, op, prev>>

Delete_LoadBalancer ==
    /\ pc = "delete_lb"
    /\ \E ok \in BOOLEAN :
          /\ calls' = Append(calls, Call("DeleteLoadBalancer", "delete",
                                         instance.LoadBalancerArn, ok))
          /\ IF ok
             THEN /\ lbs' = {l \in lbs : l.LoadBalancerArn # instance.LoadBalancerArn}
                  /\ retiredArn' = instance.LoadBalancerArn
                  /\ pc' = "done"
                  /\ result' = [ok |-> TRUE, stage |-> "", lb |-> Nil]
             ELSE Fail("lb") /\ UNCHANGED <<lbs, retiredArn>>
    /\ UNCHANGED <<probe, watch, svc, tgs, locals, trace, op, prev>>

(***************************************************************************)
(* The environment of the controller.                                      *)
(***************************************************************************)
\* Outcome of the invocation that returns, as the next one will see it.
Outcome ==
    IF op # "Reconcile" THEN "none"
    ELSE IF result.ok THEN "ok"
    ELSE IF \E i \in 1..Len(calls) : calls[i].op = "DeleteLoadBalancer" /\ calls[i].ok
    THEN "recreate-failed"
    ELSE "failed"

ResetLocals ==
    /\ pc' = "idle"
    /\ op' = "none"
    /\ ctl' = Nil
    /\ lbConfig' = Nil
    /\ found' = Nil
    /\ instance' = Nil
    /\ tgGroup' = <<>>
    /\ calls' = <<>>
    /\ trace' = <<>>
    /\ result' = Nil

\* The invocation returns to the work queue.
Return ==
    /\ pc = "done"
    /\ ResetLocals
    /\ prev' = Outcome
    /\ UNCHANGED <<probe, watch, svc, cloud>>

\* The process dies inside an invocation and starts again with no local state.
Restart ==
    /\ pc \notin {"idle", "done"}
    /\ ResetLocals
    /\ prev' = "none"
    /\ UNCHANGED <<probe, watch, svc, cloud>>

\* The Service object or its annotations change between two invocations.
UpdateService ==
    /\ pc = "idle"
    /\ \E s \in ServiceStates : s # svc /\ SameFamily(s, svc) /\ svc' = s
    /\ prev' = "none"
    /\ UNCHANGED <<probe, watch, cloud, pc, op, locals, calls, trace, result>>

Next ==
    \/ Reconcile_Start
    \/ Reconcile_GetServiceAnnotations
    \/ Reconcile_buildLBConfig
    \/ Reconcile_validateLBConfig
    \/ ensureLBInstance_Get
    \/ newLBInstance
    \/ recreateLBInstance_Delete
    \/ reconcileLBInstance_IpAddressType
    \/ reconcileLBInstance_Subnets
    \/ reconcileLBInstance_Tags
    \/ Reconcile_Attributes
    \/ Reconcile_TargetGroups
    \/ Reconcile_Listeners
    \/ Reconcile_GC
    \/ Delete_Start
    \/ Delete_Get
    \/ Delete_Listeners
    \/ Delete_TargetGroups
    \/ Delete_LoadBalancer
    \/ Return
    \/ Restart
    \/ UpdateService

Spec == Init /\ [][Next]_vars

(***************************************************************************)
(* Functions of the controller applied to inputs of their own.  probe      *)
(* holds the function's name, its inputs and, once applied, its output.    *)
(***************************************************************************)
\* The subnets that the VPCs of the probes are made of: subnet-1 and subnet-3
\* share an availability zone, subnet-1 and subnet-9 share their Name tag,
\* subnet-3 lacks the public marker and subnet-9 the internal one.
SubnetPool ==
    VpcSubnets \o
    << [SubnetId |-> "subnet-9", AvailabilityZone |-> "az-c", Name |-> "alpha",
        arn |-> <<"arn:aws:ec2:subnet", "subnet-9">>,
        tags |-> {TagNameSubnetPublicELB}] >>

ProbeVpcs ==
    {SelectSeq(SubnetPool, LAMBDA sb : sb.SubnetId \in S) : S \in SUBSET Range(StringOrder)}

\* Entries of a subnets annotation: IDs and names.
SubnetEntries == {"subnet-1", "subnet-9", "alpha", "beta", "ghost"}
MaxSubnetEntries == 2
SubnetLists ==
    UNION {[1..n -> SubnetEntries] : n \in 0..MaxSubnetEntries}

ProbeSchemes == Schemes \cup {"bogus"}

ResolveSubnetsProbes ==
    {[fn |-> "resolveSubnets", vpc |-> vpc, scheme |-> sc, in |-> in, out |-> Nil] :
        vpc \in ProbeVpcs, sc \in ProbeSchemes, in \in SubnetLists}

\* buildLBConfig calls resolveSubnets(scheme, in) and returns its error, or a
\* configuration with the subnets it returned.
Apply_resolveSubnets ==
    /\ probe # Nil
    /\ probe.fn = "resolveSubnets"
    /\ probe.out = Nil
    /\ \E r \in resolveSubnets(probe.vpc, probe.scheme, probe.in) :
          probe' = [probe EXCEPT !.out = r]
    /\ UNCHANGED <<watch, svc, cloud, pc, op, locals, calls, trace, result, prev>>

\* Values of the health check port annotation: a port number, the same with a
\* leading zero, the sentinel, two port names of the Service (the second
\* without a node port) and a name no port of the Service has.
HealthCheckPortInputs ==
    {<<"8", "0", "8", "0">>, <<"0", "8", "0">>, DefaultPort, <<"h", "t", "t", "p">>,
     <<"a", "d", "m">>, <<"n", "o", "p", "e">>}

ResolvePortProbes ==
    {[fn |-> "resolveServiceHealthCheckPort", serviceFound |-> sf, port |-> p,
      targetType |-> tt, out |-> Nil] :
        sf \in BOOLEAN, p \in HealthCheckPortInputs,
        tt \in {TargetTypeEnumInstance, TargetTypeEnumIp}}

\* The target group controller resolves the health check port of the annotations.
Apply_resolveServiceHealthCheckPort ==
    /\ probe # Nil
    /\ probe.fn = "resolveServiceHealthCheckPort"
    /\ probe.out = Nil
    /\ probe' = [probe EXCEPT !.out =
                    resolveServiceHealthCheckPort(probe.serviceFound, ServicePorts,
                                                  probe.port, probe.targetType)]
    /\ UNCHANGED <<watch, svc, cloud, pc, op, locals, calls, trace, result, prev>>

(***************************************************************************)
(* Listener actions (packages action and ls).  A pointer field is a        *)
(* sequence: empty for nil, of one element otherwise.                      *)
(***************************************************************************)
UseActionAnnotation == <<"u", "s", "e", "-", "a", "n", "n", "o", "t", "a", "t", "i", "o", "n">>

\* intstr.IntOrString.String()
IntOrStringString(p) == IF p.Type = "Int" THEN Itoa(p.IntVal) ELSE p.StrVal

\* Variant of Use that takes no backend for an annotation-configured one.
UseNever(s) == FALSE

\* action.Use
Use(s) == s = UseActionAnnotation

EmptyAction == [Type |-> <<>>, TargetGroupArn |-> <<>>, ForwardConfig |-> <<>>, Order |-> <<>>]

\* Config.GetAction
GetAction(c, serviceName) ==
    IF serviceName \in DOMAIN c.Actions
    THEN [action |-> c.Actions[serviceName], err |-> ""]
    ELSE [action |-> EmptyAction, err |-> "action annotation is not set"]

\* The forward action that buildActions builds for a target group.
ForwardAction(targetGroup) ==
    [Type |-> <<"forward">>,
     TargetGroupArn |-> <<targetGroup.Arn>>,
     ForwardConfig |-> <<[TargetGroups |-> <<[TargetGroupArn |-> <<targetGroup.Arn>>]>>]>>,
     Order |-> <<>>]

\* buildActions up to the numbering: the action of the backend, or the error.
backendActions(serviceAnnos, backend, group) ==
    IF Use(IntOrStringString(backend.ServicePort))
    THEN IF GetAction(serviceAnnos.Action, backend.ServiceName).err # ""
         THEN [actions |-> <<>>, err |-> GetAction(serviceAnnos.Action, backend.ServiceName).err]
         ELSE [actions |-> <<GetAction(serviceAnnos.Action, backend.ServiceName).action>>,
               err |-> ""]
    ELSE IF backend \notin DOMAIN group.TGByBackend
         THEN [actions |-> <<>>, err |-> "unable to find targetGroup for backend"]
         ELSE [actions |-> <<ForwardAction(group.TGByBackend[backend])>>, err |-> ""]

\* Variant of the numbering loop that keeps an order an action already carries.
numberActionsKeepingOrder(actions) ==
    [index \in 1..Len(actions) |->
        IF actions[index].Order # <<>> THEN actions[index]
        ELSE [actions[index] EXCEPT !.Order = <<index>>]]

\* The loop that numbers the actions from 1.
numberActions(actions) == [index \in 1..Len(actions) |-> [actions[index] EXCEPT !.Order = <<index>>]]

buildActions(serviceAnnos, backend, group) ==
    IF backendActions(serviceAnnos, backend, group).err # ""
    THEN backendActions(serviceAnnos, backend, group)
    ELSE [actions |-> numberActions(backendActions(serviceAnnos, backend, group).actions),
          err |-> ""]

\* Backends of the Service foo: port 80 as a number and as a string, port 81,
\* and the marker of an annotation-configured action.
IngressBackends ==
    {[ServiceName |-> sn, ServicePort |-> p] :
        sn \in {ServiceName},
        p \in {[Type |-> "Int", IntVal |-> 80, StrVal |-> <<>>],
               [Type |-> "String", IntVal |-> 0, StrVal |-> <<"8", "0">>],
               [Type |-> "Int", IntVal |-> 81, StrVal |-> <<>>],
               [Type |-> "String", IntVal |-> 0, StrVal |-> UseActionAnnotation]}}

\* An action as the actions annotation declares it: of type forward with a
\* target group, with or without an order and a forward configuration.
DeclaredActions ==
    {[Type |-> <<"forward">>, TargetGroupArn |-> <<<<"legacy", "tg", "arn">>>>,
      ForwardConfig |-> fc, Order |-> o] :
        fc \in {<<>>, <<[TargetGroups |-> <<[TargetGroupArn |-> <<<<"legacy", "tg", "arn">>>>]>>]>>},
        o \in {<<>>, <<5>>}}

\* The parsed actions annotation: nothing declared, or one action under the
\* name of the Service or under another name.
ActionConfigs ==
    {[Actions |-> <<>>]} \cup
    {[Actions |-> [n \in {sn} |-> a]] : sn \in {ServiceName, OtherServiceName}, a \in DeclaredActions}

\* Target group groups: an entry for each backend of a set of backends.
TargetGroupGroups ==
    {[TGByBackend |-> [b \in bs |-> [Arn |-> <<"arn", b.ServicePort.Type>> \o IntOrStringString(b.ServicePort)]]] :
        bs \in SUBSET IngressBackends}

BuildActionsProbes ==
    {[fn |-> "buildActions", annos |-> [Action |-> c], backend |-> b, tgGroup |-> g, out |-> Nil] :
        c \in ActionConfigs, b \in IngressBackends, g \in TargetGroupGroups}

\* The listener controller builds the actions of a backend.
Apply_buildActions ==
    /\ probe # Nil
    /\ probe.fn = "buildActions"
    /\ probe.out = Nil
    /\ probe' = [probe EXCEPT !.out = buildActions(probe.annos, probe.backend, probe.tgGroup)]
    /\ UNCHANGED <<watch, svc, cloud, pc, op, locals, calls, trace, result, prev>>

(***************************************************************************)
(* The name generator applied to prefixes, namespaces and names.           *)
(***************************************************************************)
MaxStrLen == 30

\* A string of n letters.
LetterString(n) == [i \in 1..n |-> Letters[((i - 1) % Len(Letters)) + 1]]

\* Prefixes, namespaces and service names: short ones, ones with characters
\* outside [[:alnum:]], and service names of every length up to MaxStrLen.
NameLBProbes ==
    {[fn |-> "NameLB", prefix |-> p, namespace |-> ns, serviceName |-> sn, out |-> Nil] :
        p \in {Prefix, <<"n", "_", "l", ".", "b">>, LetterString(MaxStrLen), <<"n", "U+00E9", "B">>},
        ns \in {Namespace, <<"k", "u", "b", "e", "-", "s", "y", "s">>, <<"d", "e", "f", "a", "u", "l", "t", "f">>},
        sn \in {LetterString(n) : n \in 0..MaxStrLen}
               \cup {ServiceName, <<"o", "o">>, <<"m", "y", ".", "s", "v", "c", "-", "1">>,
                     <<"U+00E9", "x", "/", "9">>}}

\* The controller names the load balancer of a Service.
Apply_NameLB ==
    /\ probe # Nil
    /\ probe.fn = "NameLB"
    /\ probe.out = Nil
    /\ probe' = [probe EXCEPT !.out = NameLB(probe.prefix, probe.namespace, probe.serviceName)]
    /\ UNCHANGED <<watch, svc, cloud, pc, op, locals, calls, trace, result, prev>>

(***************************************************************************)
(* The tags of the load balancer and of a target group, for default tags   *)
(* and annotation tags of every kind.                                      *)
(***************************************************************************)
MaxTagEntries == 2

\* Tag maps of at most MaxTagEntries entries, over the keys the controller
\* writes itself and one key of the user's.
TagMaps ==
    {[k \in ks |-> <<"x">>] :
        ks \in {s \in SUBSET {ClusterTagKey, TagKeyNamespace, TagKeyServiceName,
                              TagKeyServicePort, "team"} :
                    Cardinality(s) <= MaxTagEntries}}

BuildTagsProbes ==
    {[fn |-> "buildTags", kind |-> kd, defaultTags |-> d, backend |-> BackendA,
      annos |-> [ServiceAnnos(SchemeInternal, "ipv4", <<>>, DefaultPort)
                    EXCEPT !.Tags.LoadBalancer = a],
      out |-> Nil] :
        kd \in {"LoadBalancer", "TargetGroup"}, d \in TagMaps, a \in TagMaps}

\* The controller builds the tags it writes on the load balancer of the
\* Service (buildLBConfig) or on the target group of a backend (buildTags).
Apply_buildTags ==
    /\ probe # Nil
    /\ probe.fn = "buildTags"
    /\ probe.out = Nil
    /\ probe' = [probe EXCEPT !.out =
                    IF probe.kind = "LoadBalancer"
                    THEN buildLBConfig(probe.defaultTags, Prefix, Namespace, ServiceName,
                                       probe.annos, <<>>).Tags
                    ELSE buildTags(probe.defaultTags, Namespace, ServiceName,
                                   probe.backend, probe.annos)]
    /\ UNCHANGED <<watch, svc, cloud, pc, op, locals, calls, trace, result, prev>>

(***************************************************************************)
(* The parser of the actions annotations.                                  *)
(***************************************************************************)
\* The value of an annotation as json.Unmarshal reads it into *elbv2.Action:
\* text that is no JSON, the JSON null, or an object with or without a Type,
\* a TargetGroupArn and an Order.
RawActions ==
    {[kind |-> k, Type |-> <<>>, TargetGroupArn |-> <<>>, Order |-> <<>>] :
        k \in {"garbage", "null"}}
    \cup {[kind |-> "object", Type |-> t, TargetGroupArn |-> a, Order |-> o] :
            t \in {<<>>, <<"forward">>, <<"redirect">>},
            a \in {<<>>, <<<<"legacy", "tg", "arn">>>>},
            o \in {<<>>, <<0>>, <<5>>}}

\* json.Unmarshal([]byte(raw), &data) with data a *elbv2.Action.
Unmarshal(raw) ==
    IF raw.kind = "garbage" THEN [data |-> <<>>, err |-> "invalid character"]
    ELSE IF raw.kind = "null" THEN [data |-> <<>>, err |-> ""]
    ELSE [data |-> <<[Type |-> raw.Type, TargetGroupArn |-> raw.TargetGroupArn,
                      ForwardConfig |-> <<>>, Order |-> raw.Order]>>,
          err |-> ""]

\* elbv2.Action.Validate: Type is required and Order is at least 1.
ActionValidate(data) ==
    IF data.Type = <<>> THEN "missing required field Type"
    ELSE IF data.Order # <<>> /\ data.Order[1] < 1 THEN "minimum field value of 1, Order"
    ELSE ""

\* Variant of the loop body of Parse that takes an action of any type.
ParseActionOfAnyType(raw) ==
    IF Unmarshal(raw).err # ""
    THEN [data |-> <<>>, err |-> Unmarshal(raw).err, panic |-> FALSE]
    ELSE IF Unmarshal(raw).data = <<>>
    THEN [data |-> <<>>, err |-> "", panic |-> TRUE]
    ELSE IF ActionValidate(Unmarshal(raw).data[1]) # ""
    THEN [data |-> <<>>, err |-> ActionValidate(Unmarshal(raw).data[1]), panic |-> FALSE]
    ELSE [data |-> Unmarshal(raw).data, err |-> "", panic |-> FALSE]

\* The body of the loop of action.Parse for one annotation: the action, the
\* error, or the fault of Validate called through a nil pointer.
ParseAction(raw) ==
    IF Unmarshal(raw).err # ""
    THEN [data |-> <<>>, err |-> Unmarshal(raw).err, panic |-> FALSE]
    ELSE IF Unmarshal(raw).data = <<>>
    THEN [data |-> <<>>, err |-> "", panic |-> TRUE]
    ELSE IF ActionValidate(Unmarshal(raw).data[1]) # ""
    THEN [data |-> <<>>, err |-> ActionValidate(Unmarshal(raw).data[1]), panic |-> FALSE]
    ELSE IF Unmarshal(raw).data[1].Type[1] = "forward"
    THEN IF Unmarshal(raw).data[1].TargetGroupArn = <<>>
         THEN [data |-> <<>>, err |-> "type forward but no TargetGroupArn", panic |-> FALSE]
         ELSE [data |-> Unmarshal(raw).data, err |-> "", panic |-> FALSE]
    ELSE [data |-> <<>>, err |-> "an invalid action type", panic |-> FALSE]

\* parser.GetStringAnnotations(name, ing): the annotations of the group name,
\* keyed by what follows the prefix.
GetStringAnnotations(name, annotations) ==
    LET keys == {e.key : e \in {x \in annotations : x.group = name}}
    IN  [result |-> [k \in keys |->
                        (CHOOSE e \in annotations : e.group = name /\ e.key = k).raw],
         err |-> IF keys = {} THEN "missing annotations" ELSE ""]

\* The loop of action.Parse over the annotations in the order of the map
\* iteration, from the actions collected so far.
RECURSIVE ParseLoop(_, _, _)
ParseLoop(annos, order, actions) ==
    IF order = <<>> THEN [config |-> <<[Actions |-> actions]>>, err |-> "", panic |-> FALSE]
    ELSE IF ParseAction(annos[Head(order)]).panic
    THEN [config |-> <<>>, err |-> "", panic |-> TRUE]
    ELSE IF ParseAction(annos[Head(order)]).err # ""
    THEN [config |-> <<>>, err |-> ParseAction(annos[Head(order)]).err, panic |-> FALSE]
    ELSE ParseLoop(annos, Tail(order),
                   [k \in DOMAIN actions \cup {Head(order)} |->
                       IF k = Head(order) THEN ParseAction(annos[Head(order)]).data[1]
                       ELSE actions[k]])

\* action.Parse, the map of the annotations iterated in the given order.
Parse(annotations, order) ==
    IF GetStringAnnotations("actions", annotations).err # ""
    THEN [config |-> <<[Actions |-> <<>>]>>, err |-> "", panic |-> FALSE]
    ELSE ParseLoop(GetStringAnnotations("actions", annotations).result, order, <<>>)

\* The annotations of a Service: at most one actions annotation for each of
\* two names, with or without an annotation of another group.
ParseProbes ==
    {[fn |-> "Parse",
      annotations |-> {[group |-> "actions", key |-> k, raw |-> f[k]] : k \in DOMAIN f}
                      \cup {[group |-> "tags", key |-> k,
                             raw |-> [kind |-> "garbage", Type |-> <<>>,
                                      TargetGroupArn |-> <<>>, Order |-> <<>>]] : k \in t},
      out |-> Nil] :
        f \in UNION {[ks -> RawActions] : ks \in SUBSET {ServiceName, OtherServiceName}},
        t \in {{}, {ServiceName}}}

\* The store parses the actions annotations of a Service; GetAction is then
\* asked for each name.
Apply_Parse ==
    /\ probe # Nil
    /\ probe.fn = "Parse"
    /\ probe.out = Nil
    /\ \E order \in Perms({e.key : e \in {x \in probe.annotations : x.group = "actions"}}) :
          probe' = [probe EXCEPT !.out =
                       [parsed |-> Parse(probe.annotations, order),
                        lookups |->
                           IF Parse(probe.annotations, order).config = <<>> THEN <<>>
                           ELSE [n \in {ServiceName, OtherServiceName} |->
                                    GetAction(Parse(probe.annotations, order).config[1], n)]]]
    /\ UNCHANGED <<watch, svc, cloud, pc, op, locals, calls, trace, result, prev>>

(***************************************************************************)
(* TGInstanceNeedsModification applied to the target groups that the       *)
(* controller created under one annotation set, with another set current.  *)
(***************************************************************************)
\* Annotation sets that differ in the health check protocol, the interval
\* and the success codes.
HealthCheckAnnos ==
    {[ServiceAnnos(SchemeInternal, "ipv4", <<>>, DefaultPort) EXCEPT
         !.HealthCheck.Protocol = pr, !.HealthCheck.IntervalSeconds = iv,
         !.TargetGroup.SuccessCodes = sc] :
        pr \in {"HTTP", "HTTPS", "TCP"}, iv \in {10, 30}, sc \in {"200", "200-399"}}

NeedsModificationProbes ==
    {[fn |-> "TGInstanceNeedsModification",
      instance |-> newTGInstance(<<"t", "g">>, a, DefaultPort),
      annos |-> b, out |-> Nil] :
        a \in HealthCheckAnnos, b \in HealthCheckAnnos}

\* reconcileTGInstance asks whether the target group it found needs a change.
Apply_TGInstanceNeedsModification ==
    /\ probe # Nil
    /\ probe.fn = "TGInstanceNeedsModification"
    /\ probe.out = Nil
    /\ probe' = [probe EXCEPT !.out =
                    [needsChange |-> TGInstanceNeedsModification(probe.instance, probe.annos)]]
    /\ UNCHANGED <<watch, svc, cloud, pc, op, locals, calls, trace, result, prev>>

(***************************************************************************)
(* The name generator applied to two Services under one prefix.            *)
(***************************************************************************)
\* Services by namespace and name; some pairs of them spell the same string
\* when namespace and name are joined.
NamedServices ==
    {[namespace |-> ns, serviceName |-> sn] :
        ns \in {Namespace, Namespace \o <<"f">>, LetterString(22), LetterString(22) \o <<"f">>,
                <<"k", "u", "b", "e", "-", "s", "y", "s">>},
        sn \in {ServiceName, <<"o", "o">>, <<"m", "y", ".", "s", "v", "c", "-", "1">>}}

NameLBPairProbes ==
    {[fn |-> "NameLBPair", prefix |-> p, a |-> a, b |-> b, out |-> Nil] :
        p \in {Prefix, <<"n", "_", "l", ".", "b">>}, a \in NamedServices, b \in NamedServices}

\* The controller names the load balancers of two Services.
Apply_NameLBPair ==
    /\ probe # Nil
    /\ probe.fn = "NameLBPair"
    /\ probe.out = Nil
    /\ probe' = [probe EXCEPT !.out =
                    [a |-> NameLB(probe.prefix, probe.a.namespace, probe.a.serviceName),
                     b |-> NameLB(probe.prefix, probe.b.namespace, probe.b.serviceName)]]
    /\ UNCHANGED <<watch, svc, cloud, pc, op, locals, calls, trace, result, prev>>

(***************************************************************************)
(* The tag generator with its maps as objects: heap[1] is the map that     *)
(* gen.DefaultTags refers to, a map made by make() is appended to the heap *)
(* and m is the position of the map a function returns.                    *)
(***************************************************************************)
\* Variant of tagServiceResources that writes the tags into the map of
\* gen.DefaultTags and returns that map.
tagServiceResourcesIntoDefaultTags(heap, namespace, serviceName) ==
    [heap |-> [heap EXCEPT ![1] = tagServiceResources(heap[1], namespace, serviceName)],
     m |-> 1]

\* tagServiceResources, which TagLB and TagTGGroup return: a map made anew,
\* filled from gen.DefaultTags and with the tags of the Service.
tagServiceResourcesOnHeap(heap, namespace, serviceName) ==
    [heap |-> Append(heap, tagServiceResources(heap[1], namespace, serviceName)),
     m |-> Len(heap) + 1]

\* buildLBConfig: the annotation tags written into the map TagLB returned.
buildLBConfigTagsOnHeap(heap, namespace, serviceName, serviceAnnos) ==
    [heap |-> [tagServiceResourcesOnHeap(heap, namespace, serviceName).heap EXCEPT
                  ![tagServiceResourcesOnHeap(heap, namespace, serviceName).m] =
                      MapAssignAll(@, serviceAnnos.Tags.LoadBalancer)],
     m |-> tagServiceResourcesOnHeap(heap, namespace, serviceName).m]

\* buildTags: a map made anew, filled from the map TagTGGroup returned, the
\* map of TagTG and the annotation tags.
buildTagsOnHeap(heap, namespace, serviceName, backend, serviceAnnos) ==
    [heap |-> Append(tagServiceResourcesOnHeap(heap, namespace, serviceName).heap,
                     MapAssignAll(MapAssignAll(MapAssignAll(EmptyMap,
                         tagServiceResourcesOnHeap(heap, namespace, serviceName).heap[
                             tagServiceResourcesOnHeap(heap, namespace, serviceName).m]),
                         TagTG(backend.ServiceName, backend.ServicePort)),
                         serviceAnnos.Tags.LoadBalancer)),
     m |-> Len(tagServiceResourcesOnHeap(heap, namespace, serviceName).heap) + 1]

\* The tags of the load balancer or of the target group of a Service.
TagsOnHeap(kind, heap, serviceName, serviceAnnos) ==
    IF kind = "LoadBalancer"
    THEN buildLBConfigTagsOnHeap(heap, Namespace, serviceName, serviceAnnos)
    ELSE buildTagsOnHeap(heap, Namespace, serviceName, BackendA, serviceAnnos)

TagSharingProbes ==
    {[fn |-> "TagSharing", kind |-> kd, defaultTags |-> d,
      annos |-> [ServiceAnnos(SchemeInternal, "ipv4", <<>>, DefaultPort)
                    EXCEPT !.Tags.LoadBalancer = a],
      out |-> Nil] :
        kd \in {"LoadBalancer", "TargetGroup"}, d \in TagMaps, a \in TagMaps}

\* The controller builds the tags of default/foo, which has annotation tags,
\* then those of default/bar, which has none, then those of default/foo
\* again after its annotation tags were removed.
Apply_TagsOfTwoServices ==
    /\ probe # Nil
    /\ probe.fn = "TagSharing"
    /\ probe.out = Nil
    /\ LET plain == ServiceAnnos(SchemeInternal, "ipv4", <<>>, DefaultPort)
           first == TagsOnHeap(probe.kind, <<probe.defaultTags>>, ServiceName, probe.annos)
           second == TagsOnHeap(probe.kind, first.heap, OtherServiceName, plain)
           third == TagsOnHeap(probe.kind, second.heap, ServiceName, plain)
       IN  probe' = [probe EXCEPT !.out =
                        [heap |-> third.heap, first |-> first.m, second |-> second.m,
                         third |-> third.m, firstTags |-> first.heap[first.m]]]
    /\ UNCHANGED <<watch, svc, cloud, pc, op, locals, calls, trace, result, prev>>

Probes ==
    ResolveSubnetsProbes \cup ResolvePortProbes \cup BuildActionsProbes \cup NameLBProbes
        \cup BuildTagsProbes \cup ParseProbes \cup NeedsModificationProbes
        \cup NameLBPairProbes \cup TagSharingProbes

\* The controller is idle while a function is probed.
InitFunctions ==
    /\ probe \in Probes
    /\ watch = Nil
    /\ svc = [annos |-> ServiceAnnos(SchemeInternal, "ipv4", <<>>, DefaultPort),
              backends |-> <<BackendA>>]
    /\ lbs = {ForeignLB}
    /\ retiredArn = 0
    /\ tgs = {}
    /\ pc = "idle"
    /\ op = "none"
    /\ ctl = Nil
    /\ lbConfig = Nil
    /\ found = Nil
    /\ instance = Nil
    /\ tgGroup = <<>>
    /\ calls = <<>>
    /\ trace = <<>>
    /\ result = Nil
    /\ prev = "none"

NextFunctions ==
    \/ Apply_resolveSubnets
    \/ Apply_resolveServiceHealthCheckPort
    \/ Apply_buildActions
    \/ Apply_NameLB
    \/ Apply_buildTags
    \/ Apply_Parse
    \/ Apply_TGInstanceNeedsModification
    \/ Apply_NameLBPair
    \/ Apply_TagsOfTwoServices

SpecFunctions == InitFunctions /\ [][NextFunctions]_vars

(***************************************************************************)
(* The target group controller on its own: Reconcile(service, backend)     *)
(* runs against Services whose health check port, target type and health   *)
(* check interval vary.  found holds what the lookup by name returned.     *)
(***************************************************************************)
TGServiceStates ==
    {[annos |-> [ServiceAnnos(SchemeInternal, "ipv4", <<>>, hp) EXCEPT
                    !.TargetGroup.TargetType = tt, !.HealthCheck.IntervalSeconds = iv],
      backends |-> <<BackendA>>] :
        hp \in HealthCheckPorts \cup {<<"a", "d", "m">>},
        tt \in {TargetTypeEnumInstance, TargetTypeEnumIp},
        iv \in {10, 30}}

InitTG ==
    /\ svc \in TGServiceStates
    /\ lbs = {ForeignLB}
    /\ retiredArn = 0
    /\ tgs = {}
    /\ pc = "idle"
    /\ op = "none"
    /\ ctl = Nil
    /\ lbConfig = Nil
    /\ found = Nil
    /\ instance = Nil
    /\ tgGroup = <<>>
    /\ calls = <<>>
    /\ trace = <<>>
    /\ result = Nil
    /\ prev = "none"
    /\ probe = Nil
    /\ watch = Nil

\* TargetGroup{}, the value returned along with an error.
EmptyTargetGroup == [Arn |-> <<>>]

\* The target groups that the lookup of the first call of cs names.
LookedUpTG(cs) ==
    IF cs = <<>> \/ ~cs[1].ok THEN {} ELSE {t \in tgs : t.TargetGroupName = cs[1].arg}

\* Reconcile(service, backend) of the target group controller.
TG_Reconcile ==
    /\ pc = "idle"
    /\ \E i \in 1..Len(svc.backends) : \E failAt \in TGFailPoints :
          LET o == TGReconcile(svc.backends[i], failAt)
          IN  /\ o.valid
              /\ tgs' = o.tgs
              /\ calls' = o.calls
              /\ found' = IF LookedUpTG(o.calls) = {} THEN Nil
                          ELSE CHOOSE t \in LookedUpTG(o.calls) : TRUE
              /\ result' = [ok |-> o.ok,
                            tg |-> IF o.ok THEN [Arn |-> o.tg.Arn] ELSE EmptyTargetGroup]
              /\ pc' = IF o.panic THEN "crashed" ELSE "done"
    /\ op' = "TGReconcile"
    /\ UNCHANGED <<probe, watch, svc, lbs, retiredArn, ctl, lbConfig, instance, tgGroup, trace, prev>>

\* Reconcile(service, backend) returns to the group controller.
TG_Return ==
    /\ op = "TGReconcile"
    /\ pc = "done"
    /\ ResetLocals
    /\ UNCHANGED <<probe, watch, svc, cloud, prev>>

\* The Service changes between two runs of the target group controller.
TG_UpdateService ==
    /\ pc = "idle"
    /\ \E s \in TGServiceStates : s # svc /\ svc' = s
    /\ UNCHANGED <<probe, watch, cloud, pc, op, locals, calls, trace, result, prev>>

NextTG ==
    \/ TG_Reconcile
    \/ TG_Return
    \/ TG_UpdateService

SpecTG == InitTG /\ [][NextTG]_vars

(***************************************************************************)
(* Event handlers (package handlers), the work queue they feed and the     *)
(* workers that take reconcile requests from it.                           *)
(***************************************************************************)
ServiceClass == "nlb"
MaxWorkers == 2

\* The Service objects the cluster can hold: default/foo in or out of the
\* class and in two versions, default/bar and kube/foo in the class.
ServiceObjects ==
    {[Namespace |-> Namespace, Name |-> ServiceName, Class |-> cl, Generation |-> g] :
        cl \in {ServiceClass, "other"}, g \in 1..2}
    \cup {[Namespace |-> Namespace, Name |-> OtherServiceName, Class |-> ServiceClass,
           Generation |-> 1]}
    \cup {[Namespace |-> OtherNamespace, Name |-> ServiceName, Class |-> ServiceClass,
           Generation |-> 1]}

\* The order in which Cache.List returns the Services.
ServiceListOrder ==
    <<[Namespace |-> Namespace, Name |-> OtherServiceName],
      [Namespace |-> Namespace, Name |-> ServiceName],
      [Namespace |-> OtherNamespace, Name |-> ServiceName]>>

\* Endpoints objects: namespace, subsets, and a field besides the subsets.
EndpointsObjects ==
    {[Namespace |-> ns, Subsets |-> sl[1], Labels |-> sl[2]] :
        ns \in {Namespace, OtherNamespace}, sl \in {<<1, 1>>, <<1, 2>>, <<2, 1>>}}

\* class.IsValidService
IsValidService(serviceClass, service) == service.Class = serviceClass

\* Variant of the request that carries the version of the Service object.
RequestWithGeneration(service) ==
    [Namespace |-> service.Namespace, Name |-> service.Name, Generation |-> service.Generation]

\* reconcile.Request{NamespacedName: {Namespace, Name}} of a Service
Request(service) == [Namespace |-> service.Namespace, Name |-> service.Name]

\* Variant of the Service handler that enqueues without the class check.
enqueueWhateverTheClass(service) == <<Request(service)>>

\* EnqueueRequestsForServiceEvent.enqueueIfServiceClassMatched: the requests
\* it adds to the queue.
enqueueIfServiceClassMatched(service) ==
    IF ~IsValidService(ServiceClass, service) THEN <<>> ELSE <<Request(service)>>

\* Cache.List: the Services of the cache (of one namespace, of all with
\* AllNamespaces), in the order of ServiceListOrder.
AllNamespaces == <<>>
CacheList(cache, inNamespace) ==
    LET keys == SelectSeq(ServiceListOrder,
                    LAMBDA k : /\ \E s \in cache : s.Namespace = k.Namespace /\ s.Name = k.Name
                               /\ inNamespace \in {AllNamespaces, k.Namespace})
    IN  [i \in 1..Len(keys) |->
            CHOOSE s \in cache : s.Namespace = keys[i].Namespace /\ s.Name = keys[i].Name]

\* The loop of both enqueueImpactedServices: a request for each Service of
\* the list that is in the class.
RECURSIVE enqueueValidServices(_)
enqueueValidServices(items) ==
    IF items = <<>> THEN <<>>
    ELSE (IF ~IsValidService(ServiceClass, Head(items)) THEN <<>> ELSE <<Request(Head(items))>>)
         \o enqueueValidServices(Tail(items))

\* Variant of the Endpoints handler that lists the Services of all namespaces.
enqueueImpactedOfAllNamespaces(cache, listOk, endpoints) ==
    IF ~listOk THEN <<>> ELSE enqueueValidServices(CacheList(cache, AllNamespaces))

\* EnqueueRequestsForEndpointsEvent.enqueueImpactedServices
enqueueImpactedByEndpoints(cache, listOk, endpoints) ==
    IF ~listOk THEN <<>> ELSE enqueueValidServices(CacheList(cache, endpoints.Namespace))

\* EnqueueRequestsForNodeEvent.enqueueImpactedServices
enqueueImpactedByNode(cache, listOk) ==
    IF ~listOk THEN <<>> ELSE enqueueValidServices(CacheList(cache, AllNamespaces))

\* workqueue Add: an item already waiting is dropped, an item being
\* processed is remembered and queued once its processing is done.
QueueAdd(q, item) ==
    IF item \in q.dirty THEN q
    ELSE IF item \in q.processing THEN [q EXCEPT !.dirty = @ \cup {item}]
    ELSE [q EXCEPT !.dirty = @ \cup {item}, !.queue = Append(@, item)]

RECURSIVE QueueAddAll(_, _)
QueueAddAll(q, items) ==
    IF items = <<>> THEN q ELSE QueueAddAll(QueueAdd(q, Head(items)), Tail(items))

\* workqueue Get by the worker w.
QueueGet(q, w) ==
    [q EXCEPT !.queue = Tail(@), !.dirty = @ \ {Head(q.queue)},
              !.processing = @ \cup {Head(q.queue)}, !.inflight[w] = Head(q.queue)]

\* workqueue Done by the worker w.
QueueDone(q, w) ==
    [q EXCEPT !.processing = @ \ {q.inflight[w]}, !.inflight[w] = Nil,
              !.queue = IF q.inflight[w] \in q.dirty THEN Append(@, q.inflight[w]) ELSE @]

\* A handler has run on an event: the cache holds the Services as they are
\* after the event and the requests the handler added are in the queue.
Handled(event, cache, requests) ==
    /\ watch' = [QueueAddAll(watch, requests) EXCEPT !.last = event, !.added = requests,
                                                     !.cache = cache]
    /\ UNCHANGED <<probe, svc, cloud, pc, op, locals, calls, trace, result, prev>>

Event(kind, type, objs, ns, differ, listOk) ==
    [kind |-> kind, type |-> type, objs |-> objs, ns |-> ns, differ |-> differ, listOk |-> listOk]

\* The cache c without the Service of the name of s, and whether it holds one.
CacheWithout(c, s) == {t \in c : t.Namespace # s.Namespace \/ t.Name # s.Name}
CacheHolds(c, s) == CacheWithout(c, s) # c

EnqueueRequestsForServiceEvent_Create ==
    /\ watch # Nil
    /\ \E s \in ServiceObjects :
          /\ ~CacheHolds(watch.cache, s)
          /\ Handled(Event("Service", "Create", <<s>>, s.Namespace, TRUE, TRUE),
                     watch.cache \cup {s},
                     enqueueIfServiceClassMatched(s))

\* Variant of the Update handler of Service events that enqueues for the new
\* object alone.
EnqueueRequestsForServiceEvent_Update_NewObjectOnly ==
    /\ watch # Nil
    /\ \E old \in watch.cache : \E new \in ServiceObjects :
          /\ new.Namespace = old.Namespace
          /\ new.Name = old.Name
          /\ Handled(Event("Service", "Update", <<old, new>>, new.Namespace, old # new, TRUE),
                     CacheWithout(watch.cache, old) \cup {new},
                     enqueueIfServiceClassMatched(new))

EnqueueRequestsForServiceEvent_Update ==
    /\ watch # Nil
    /\ \E old \in watch.cache : \E new \in ServiceObjects :
          /\ new.Namespace = old.Namespace
          /\ new.Name = old.Name
          /\ Handled(Event("Service", "Update", <<old, new>>, new.Namespace, old # new, TRUE),
                     CacheWithout(watch.cache, old) \cup {new},
                     enqueueIfServiceClassMatched(old) \o enqueueIfServiceClassMatched(new))

EnqueueRequestsForServiceEvent_Delete ==
    /\ watch # Nil
    /\ \E s \in watch.cache :
          Handled(Event("Service", "Delete", <<s>>, s.Namespace, TRUE, TRUE),
                  watch.cache \ {s},
                  enqueueIfServiceClassMatched(s))

EnqueueRequestsForServiceEvent_Generic ==
    /\ watch # Nil
    /\ \E s \in watch.cache :
          Handled(Event("Service", "Generic", <<s>>, s.Namespace, FALSE, TRUE),
                  watch.cache,
                  enqueueIfServiceClassMatched(s))

EnqueueRequestsForEndpointsEvent_Create ==
    /\ watch # Nil
    /\ \E e \in EndpointsObjects : \E listOk \in BOOLEAN :
          Handled(Event("Endpoints", "Create", <<>>, e.Namespace, TRUE, listOk),
                  watch.cache,
                  enqueueImpactedByEndpoints(watch.cache, listOk, e))

EnqueueRequestsForEndpointsEvent_Update ==
    /\ watch # Nil
    /\ \E epOld \in EndpointsObjects : \E epNew \in EndpointsObjects : \E listOk \in BOOLEAN :
          /\ epNew.Namespace = epOld.Namespace
          /\ Handled(Event("Endpoints", "Update", <<>>, epNew.Namespace,
                           epOld.Subsets # epNew.Subsets, listOk),
                     watch.cache,
                     IF epOld.Subsets # epNew.Subsets
                     THEN enqueueImpactedByEndpoints(watch.cache, listOk, epNew)
                     ELSE <<>>)

EnqueueRequestsForEndpointsEvent_Delete ==
    /\ watch # Nil
    /\ \E e \in EndpointsObjects : \E listOk \in BOOLEAN :
          Handled(Event("Endpoints", "Delete", <<>>, e.Namespace, TRUE, listOk),
                  watch.cache,
                  enqueueImpactedByEndpoints(watch.cache, listOk, e))

EnqueueRequestsForNodeEvent_Create ==
    /\ watch # Nil
    /\ \E listOk \in BOOLEAN :
          Handled(Event("Node", "Create", <<>>, AllNamespaces, TRUE, listOk),
                  watch.cache,
                  enqueueImpactedByNode(watch.cache, listOk))

EnqueueRequestsForNodeEvent_Update ==
    /\ watch # Nil
    /\ \E differ \in BOOLEAN :
          Handled(Event("Node", "Update", <<>>, AllNamespaces, differ, TRUE), watch.cache, <<>>)

EnqueueRequestsForNodeEvent_Delete ==
    /\ watch # Nil
    /\ \E listOk \in BOOLEAN :
          Handled(Event("Node", "Delete", <<>>, AllNamespaces, TRUE, listOk),
                  watch.cache,
                  enqueueImpactedByNode(watch.cache, listOk))

\* A worker of the controller takes the next request from the queue: the
\* Reconcile or Delete of its Service is in flight.
Worker_Get ==
    /\ watch # Nil
    /\ watch.queue # <<>>
    /\ \E w \in 1..MaxWorkers :
          /\ watch.inflight[w] = Nil
          /\ watch' = QueueGet(watch, w)
    /\ UNCHANGED <<probe, svc, cloud, pc, op, locals, calls, trace, result, prev>>

\* The Reconcile or Delete of a worker returns.
Worker_Done ==
    /\ watch # Nil
    /\ \E w \in 1..MaxWorkers :
          /\ watch.inflight[w] # Nil
          /\ watch' = QueueDone(watch, w)
    /\ UNCHANGED <<probe, svc, cloud, pc, op, locals, calls, trace, result, prev>>

InitEvents ==
    /\ watch = [cache |-> {}, queue |-> <<>>, dirty |-> {}, processing |-> {},
                inflight |-> [w \in 1..MaxWorkers |-> Nil], last |-> Nil, added |-> <<>>]
    /\ probe = Nil
    /\ svc = [annos |-> ServiceAnnos(SchemeInternal, "ipv4", <<>>, DefaultPort),
              backends |-> <<BackendA>>]
    /\ lbs = {ForeignLB}
    /\ retiredArn = 0
    /\ tgs = {}
    /\ pc = "idle"
    /\ op = "none"
    /\ ctl = Nil
    /\ lbConfig = Nil
    /\ found = Nil
    /\ instance = Nil
    /\ tgGroup = <<>>
    /\ calls = <<>>
    /\ trace = <<>>
    /\ result = Nil
    /\ prev = "none"

NextEvents ==
    \/ EnqueueRequestsForServiceEvent_Create
    \/ EnqueueRequestsForServiceEvent_Update
    \/ EnqueueRequestsForServiceEvent_Delete
    \/ EnqueueRequestsForServiceEvent_Generic
    \/ EnqueueRequestsForEndpointsEvent_Create
    \/ EnqueueRequestsForEndpointsEvent_Update
    \/ EnqueueRequestsForEndpointsEvent_Delete
    \/ EnqueueRequestsForNodeEvent_Create
    \/ EnqueueRequestsForNodeEvent_Update
    \/ EnqueueRequestsForNodeEvent_Delete
    \/ Worker_Get
    \/ Worker_Done

SpecEvents == InitEvents /\ [][NextEvents]_vars

(***************************************************************************)
(* The annotation store beside the controller: the Service informer hands  *)
(* every notification to the handler of the store and to the handler of    *)
(* the controller, each through a queue of its own; the workers read the   *)
(* annotations from the store.  One Service key, default/foo.              *)
(***************************************************************************)
MaxVersion == 3
MaxPending == 2

\* The Service default/foo as the API server holds it at a version.
ServiceVersion(class, generation) ==
    [Namespace |-> Namespace, Name |-> ServiceName, Class |-> class, Generation |-> generation]

\* annotations.Extractor.ExtractService: the parsed annotations of a Service
\* object, under its key, from the version they were parsed from.
ExtractService(service) ==
    [Namespace |-> service.Namespace, Name |-> service.Name, Generation |-> service.Generation]

\* svcEventHandler.AddFunc with extractServiceAnnotations: the entry of the
\* key in the annotation store afterwards.
svcEventHandler_AddFunc(entry, service) ==
    IF ~IsValidService(ServiceClass, service) THEN entry ELSE <<ExtractService(service)>>

\* svcEventHandler.DeleteFunc
svcEventHandler_DeleteFunc(entry, service) ==
    IF ~IsValidService(ServiceClass, service) THEN entry ELSE <<>>

\* svcEventHandler.UpdateFunc with extractServiceAnnotations
svcEventHandler_UpdateFunc(entry, old, cur) ==
    IF old # cur
    THEN IF ~IsValidService(ServiceClass, cur) THEN entry ELSE <<ExtractService(cur)>>
    ELSE entry

\* The informer has updated its cache to object and notifies both handlers.
Notified(object, notification) ==
    /\ Len(watch.toStore) < MaxPending
    /\ Len(watch.toController) < MaxPending
    /\ watch' = [watch EXCEPT !.object = object,
                              !.version = IF object # <<>> /\ object[1].Generation > @
                                          THEN object[1].Generation ELSE @,
                              !.toStore = Append(@, notification),
                              !.toController = Append(@, notification)]
    /\ UNCHANGED <<probe, svc, cloud, pc, op, locals, calls, trace, result, prev>>

Informer_Add ==
    /\ watch # Nil
    /\ watch.object = <<>>
    /\ watch.version < MaxVersion
    /\ \E class \in {ServiceClass, "other"} :
          Notified(<<ServiceVersion(class, watch.version + 1)>>,
                   [type |-> "Add", old |-> <<>>,
                    new |-> <<ServiceVersion(class, watch.version + 1)>>])

\* An update of the Service, or a resync that notifies with the same object.
Informer_Update ==
    /\ watch # Nil
    /\ watch.object # <<>>
    /\ \/ /\ watch.version < MaxVersion
          /\ \E class \in {ServiceClass, "other"} :
                Notified(<<ServiceVersion(class, watch.version + 1)>>,
                         [type |-> "Update", old |-> watch.object,
                          new |-> <<ServiceVersion(class, watch.version + 1)>>])
       \/ Notified(watch.object, [type |-> "Update", old |-> watch.object, new |-> watch.object])

Informer_Delete ==
    /\ watch # Nil
    /\ watch.object # <<>>
    /\ Notified(<<>>, [type |-> "Delete", old |-> watch.object, new |-> <<>>])

\* The handler of the store takes its next notification.
Store_svcEventHandler ==
    /\ watch # Nil
    /\ watch.toStore # <<>>
    /\ LET n == Head(watch.toStore)
       IN  watch' = [watch EXCEPT
                !.toStore = Tail(@),
                !.seen = n.new,
                !.annotations =
                    IF n.type = "Add" THEN svcEventHandler_AddFunc(@, n.new[1])
                    ELSE IF n.type = "Delete" THEN svcEventHandler_DeleteFunc(@, n.old[1])
                    ELSE svcEventHandler_UpdateFunc(@, n.old[1], n.new[1])]
    /\ UNCHANGED <<probe, svc, cloud, pc, op, locals, calls, trace, result, prev>>

\* The handler of the controller takes its next notification and adds the
\* requests to the work queue.
Controller_EnqueueRequestsForServiceEvent ==
    /\ watch # Nil
    /\ watch.toController # <<>>
    /\ LET n == Head(watch.toController)
           requests == IF n.type = "Add" THEN enqueueIfServiceClassMatched(n.new[1])
                       ELSE IF n.type = "Delete" THEN enqueueIfServiceClassMatched(n.old[1])
                       ELSE enqueueIfServiceClassMatched(n.old[1])
                            \o enqueueIfServiceClassMatched(n.new[1])
       IN  watch' = [QueueAddAll(watch, requests) EXCEPT
                !.toController = Tail(@),
                !.cause = IF /\ n.type \in {"Add", "Update"}
                             /\ enqueueIfServiceClassMatched(n.new[1]) # <<>>
                          THEN n.new[1].Generation ELSE @]
    /\ UNCHANGED <<probe, svc, cloud, pc, op, locals, calls, trace, result, prev>>

\* A worker takes the key; the Reconcile it runs has read nothing yet.
Store_Worker_Get ==
    /\ watch # Nil
    /\ watch.queue # <<>>
    /\ watch.inflight[1] = Nil
    /\ watch' = [QueueGet(watch, 1) EXCEPT !.read = <<>>, !.taken = watch.cause]
    /\ UNCHANGED <<probe, svc, cloud, pc, op, locals, calls, trace, result, prev>>

\* The Reconcile of the worker, run on the Service the cache holds, loads the
\* annotations of the key from the store.
Store_Reconcile_GetServiceAnnotations ==
    /\ watch # Nil
    /\ watch.inflight[1] # Nil
    /\ watch.read = <<>>
    /\ watch.object # <<>>
    /\ watch' = [watch EXCEPT !.read = <<[annotations |-> watch.annotations,
                                         cause |-> watch.taken,
                                         service |-> watch.object[1]]>>]
    /\ UNCHANGED <<probe, svc, cloud, pc, op, locals, calls, trace, result, prev>>

Store_Worker_Done ==
    /\ watch # Nil
    /\ watch.inflight[1] # Nil
    /\ watch' = QueueDone(watch, 1)
    /\ UNCHANGED <<probe, svc, cloud, pc, op, locals, calls, trace, result, prev>>

InitStore ==
    /\ watch = [object |-> <<>>, version |-> 0, toStore |-> <<>>, toController |-> <<>>,
                seen |-> <<>>, annotations |-> <<>>, cause |-> 0, taken |-> 0, read |-> <<>>,
                queue |-> <<>>, dirty |-> {}, processing |-> {},
                inflight |-> [w \in {1} |-> Nil]]
    /\ probe = Nil
    /\ svc = [annos |-> ServiceAnnos(SchemeInternal, "ipv4", <<>>, DefaultPort),
              backends |-> <<BackendA>>]
    /\ lbs = {ForeignLB}
    /\ retiredArn = 0
    /\ tgs = {}
    /\ pc = "idle"
    /\ op = "none"
    /\ ctl = Nil
    /\ lbConfig = Nil
    /\ found = Nil
    /\ instance = Nil
    /\ tgGroup = <<>>
    /\ calls = <<>>
    /\ trace = <<>>
    /\ result = Nil
    /\ prev = "none"

NextStore ==
    \/ Informer_Add
    \/ Informer_Update
    \/ Informer_Delete
    \/ Store_svcEventHandler
    \/ Controller_EnqueueRequestsForServiceEvent
    \/ Store_Worker_Get
    \/ Store_Reconcile_GetServiceAnnotations
    \/ Store_Worker_Done

SpecStore == InitStore /\ [][NextStore]_vars

\* The Reconcile or Delete of the worker w returns.
Worker_DoneOf(w) == Worker_Done /\ watch.inflight[w] # Nil /\ watch'.inflight[w] = Nil

\* The workers keep taking requests, and the Reconcile or Delete of every
\* worker returns.
FairSpecEvents ==
    /\ SpecEvents
    /\ WF_vars(Worker_Get)
    /\ \A w \in 1..MaxWorkers : WF_vars(Worker_DoneOf(w))

(***************************************************************************)
(* Properties.  They speak of the invocation in flight through its call    *)
(* log (calls), its stage log (trace) and its locals.                      *)
(***************************************************************************)
CallIndexes(name) == {i \in 1..Len(calls) : calls[i].op = name}
Count(name) == Cardinality(CallIndexes(name))
Issued(name) == CallIndexes(name) # {}
TheCall(name) == calls[CHOOSE i \in CallIndexes(name) : TRUE]
NoMutatingCall == \A i \in 1..Len(calls) : calls[i].op \notin MutatingOps

\* GetLoadBalancerByName of ensureLBInstance has answered.
LookedUp ==
    /\ op = "Reconcile"
    /\ \E i \in 1..Len(calls) :
          calls[i].op = "GetLoadBalancerByName" /\ calls[i].stage = "ensure" /\ calls[i].ok

\* ensureLBInstance has returned, with an instance or with an error.
EnsureReturned ==
    /\ LookedUp
    /\ pc \notin {"ensure", "create", "recreate", "reconcile_ip", "reconcile_subnets",
                  "reconcile_tags"}

ReconcileFailed == op = "Reconcile" /\ pc = "done" /\ ~result.ok
ReconcileSucceeded == op = "Reconcile" /\ pc = "done" /\ result.ok

\* C1: in Reconcile every call of the target group GC comes after a listener
\* reconciliation of the same invocation that succeeded and after target
\* group reconciliations that all succeeded; target groups are deleted by the
\* GC only; a Reconcile that fails in the target group or the listener stage
\* issues no GC call and deletes no target group.
C1_GCOnlyAfterListeners ==
    op = "Reconcile" =>
        /\ \A i \in 1..Len(calls) :
              calls[i].stage = "gc" =>
                  /\ \E j \in 1..(i - 1) : calls[j].stage = "listeners" /\ calls[j].ok
                  /\ \A j \in 1..(i - 1) :
                        calls[j].stage \in {"targetgroups", "listeners"} => calls[j].ok
        /\ \A i \in CallIndexes("DeleteTargetGroup") : calls[i].stage = "gc"
        /\ (pc = "done" /\ ~result.ok /\ result.stage \in {"targetgroups", "listeners"}) =>
              /\ \A i \in 1..Len(calls) : calls[i].stage # "gc"
              /\ ~Issued("DeleteTargetGroup")

\* The GC of a successful Reconcile deleted a stale target group.
C1_Witness ==
    /\ ReconcileSucceeded
    /\ \E i \in CallIndexes("DeleteTargetGroup") : calls[i].ok
    /\ \E j \in 1..Len(calls) : calls[j].op = "ModifyListeners" /\ calls[j].ok

\* The calls that take back what an earlier stage of Reconcile did.
UndoingCall(i) ==
    \/ calls[i].op = "DeleteListeners"
    \/ /\ calls[i].op = "DeleteTargetGroup"
       /\ \E j \in 1..(i - 1) :
             /\ calls[j].op \in {"CreateTargetGroup", "ModifyTargetGroup"}
             /\ calls[j].arg.TargetGroupArn = calls[i].arg
    \/ /\ calls[i].op = "DeleteLoadBalancer"
       /\ \E j \in 1..(i - 1) : calls[j].op = "CreateLoadBalancer"

\* C2: Reconcile enters its stages in the order annotations, build, validate,
\* ensure, attributes, targetgroups, listeners, gc; a Reconcile that fails in
\* stage k returns an error and no LoadBalancer, has entered no stage after k,
\* has issued no call of a later stage and none after the failing call, and
\* has issued no call that undoes an earlier stage.
C2_StagesInOrderAbortNoRollback ==
    op = "Reconcile" =>
        /\ Len(trace) <= Len(Stages)
        /\ \A i \in 1..Len(trace) : trace[i] = Stages[i]
        /\ \A i, j \in 1..Len(calls) :
              i < j => StageIndex(calls[i].stage) <= StageIndex(calls[j].stage)
        /\ (pc = "done" /\ result.ok) => trace = Stages
        /\ (pc = "done" /\ ~result.ok) =>
              /\ result.lb = Nil
              /\ trace # <<>>
              /\ result.stage = trace[Len(trace)]
              /\ \A i \in 1..Len(calls) :
                    /\ StageIndex(calls[i].stage) <= StageIndex(result.stage)
                    /\ i < Len(calls) => calls[i].ok
                    /\ ~UndoingCall(i)

\* A Reconcile created the load balancer and a target group and then failed
\* in the listener stage: both are still there.
C2_Witness ==
    /\ ReconcileFailed
    /\ result.stage = "listeners"
    /\ Issued("CreateLoadBalancer")
    /\ Issued("CreateTargetGroup")
    /\ instance \in {Describe(l, instance.AvailabilityZones) : l \in lbs}
    /\ tgs # {}

SchemeDiffers == found # Nil /\ found.Scheme # lbConfig.Scheme

\* The calls of a recreation, but for the number of create calls.
RecreationCalls ==
    /\ Count("DeleteLoadBalancer") = 1
    /\ TheCall("DeleteLoadBalancer").arg = found.LoadBalancerArn
    /\ \A i \in CallIndexes("CreateLoadBalancer") :
          /\ calls[i].arg = CreateLoadBalancerInput(lbConfig)
          /\ calls[i].arg.Name = found.LoadBalancerName
          /\ \E j \in 1..(i - 1) : calls[j].op = "DeleteLoadBalancer"
    /\ ~Issued("SetIpAddressType")
    /\ ~Issued("SetSubnets")

\* C3 as stated: a scheme change gives exactly one delete call followed by
\* exactly one create call.
C3_AsStated ==
    (EnsureReturned /\ SchemeDiffers) =>
        RecreationCalls /\ Count("CreateLoadBalancer") = 1

\* C3: when the load balancer found by name has another scheme than the
\* desired one, the ensure stage issues exactly one delete call for the ARN
\* found, then, only if that delete succeeded, exactly one create call with
\* the desired configuration under the same name, and no set-IP-address-type
\* or set-subnets call and no create before the delete.
C3_RecreateOnSchemeChange ==
    (EnsureReturned /\ SchemeDiffers) =>
        /\ RecreationCalls
        /\ Count("CreateLoadBalancer") = IF TheCall("DeleteLoadBalancer").ok THEN 1 ELSE 0

\* A recreation went through: the delete and the create both succeeded.
C3_Witness ==
    /\ EnsureReturned
    /\ SchemeDiffers
    /\ TheCall("DeleteLoadBalancer").ok
    /\ Issued("CreateLoadBalancer")
    /\ TheCall("CreateLoadBalancer").ok

\* C4: Reconcile issues a delete-load-balancer call only for a load balancer
\* that the lookup by the Service's name found with a scheme other than the
\* desired one; the load balancer of another Service is never touched.
C4_DeleteOnlyOnSchemeChange ==
    /\ ForeignLB \in lbs
    /\ (op = "Reconcile" /\ Issued("DeleteLoadBalancer")) =>
          /\ LookedUp
          /\ found # Nil
          /\ found.LoadBalancerName = LBName
          /\ found.Scheme # lbConfig.Scheme
          /\ found.Scheme # svc.annos.LoadBalancer.Scheme
          /\ \A i \in CallIndexes("DeleteLoadBalancer") : calls[i].arg = found.LoadBalancerArn

\* A Reconcile deleted the load balancer whose scheme was not the desired one.
C4_Witness ==
    /\ op = "Reconcile"
    /\ Issued("DeleteLoadBalancer")
    /\ TheCall("DeleteLoadBalancer").ok
    /\ found.Scheme = SchemeInternal
    /\ svc.annos.LoadBalancer.Scheme = SchemeInternetFacing

\* The tags Reconcile wants on the load balancer of the Service.
DesiredLBTags ==
    MapAssignAll(tagServiceResources(DefaultTags, Namespace, ServiceName),
                 svc.annos.Tags.LoadBalancer)

\* C5: when the lookup by name finds no load balancer, the ensure stage issues
\* exactly one create call with the desired name, type network, the desired
\* scheme and IP address type, the resolved subnets and the tags, and no
\* delete, set-IP-address-type or set-subnets call; when the create succeeds
\* the stage returns the created instance, else Reconcile fails in the stage.
C5_CreateWhenAbsent ==
    (EnsureReturned /\ found = Nil) =>
        /\ Count("CreateLoadBalancer") = 1
        /\ TheCall("CreateLoadBalancer").arg =
              [Name |-> LBName, Type |-> LoadBalancerTypeEnumNetwork,
               Scheme |-> svc.annos.LoadBalancer.Scheme,
               IpAddressType |-> svc.annos.LoadBalancer.IPAddressType,
               Subnets |-> lbConfig.Subnets, Tags |-> DesiredLBTags]
        /\ [subnets |-> lbConfig.Subnets, err |-> ""]
              \in resolveSubnets(VpcSubnets, svc.annos.LoadBalancer.Scheme,
                                 svc.annos.LoadBalancer.Subnets)
        /\ ~Issued("DeleteLoadBalancer")
        /\ ~Issued("SetIpAddressType")
        /\ ~Issued("SetSubnets")
        /\ IF TheCall("CreateLoadBalancer").ok
           THEN /\ instance # Nil
                /\ instance.LoadBalancerName = LBName
                /\ instance.Scheme = svc.annos.LoadBalancer.Scheme
                /\ instance.IpAddressType = svc.annos.LoadBalancer.IPAddressType
                /\ Range(instance.AvailabilityZones) = Range(lbConfig.Subnets)
                /\ \E l \in lbs : l.LoadBalancerArn = instance.LoadBalancerArn
                                  /\ l.LoadBalancerName = LBName
           ELSE pc = "done" /\ ~result.ok /\ result.stage = "ensure"

\* No load balancer was found, one was created, and Reconcile returned it.
C5_Witness ==
    /\ ReconcileSucceeded
    /\ LookedUp
    /\ found = Nil
    /\ TheCall("CreateLoadBalancer").ok
    /\ result.lb.Arn = instance.LoadBalancerArn

\* The lookup found the load balancer with the desired scheme.
InPlace == found # Nil /\ found.Scheme = lbConfig.Scheme

IpAddressTypeChanged == found.IpAddressType # lbConfig.IpAddressType
SubnetSetChanged == Range(found.AvailabilityZones) # Range(lbConfig.Subnets)

\* The calls of tagsController.ReconcileELB on the load balancer.
LBTagCalls == {i \in 1..Len(calls) : calls[i].stage = "ensure"
                                     /\ calls[i].op \in {"AddTags", "DescribeTags"}}

Failed(name) == \E i \in CallIndexes(name) : ~calls[i].ok

\* C6 as stated: each of the two set calls is issued if and only if its field
\* differs, and the tags are reconciled afterwards.
C6_AsStated ==
    (EnsureReturned /\ InPlace) =>
        /\ Issued("SetIpAddressType") <=> IpAddressTypeChanged
        /\ Issued("SetSubnets") <=> SubnetSetChanged
        /\ LBTagCalls # {}
        /\ ~Issued("CreateLoadBalancer")
        /\ ~Issued("DeleteLoadBalancer")

\* C6: when the load balancer exists with the desired scheme, the in-place
\* path issues a set-IP-address-type call iff the live IP address type differs
\* from the desired one; unless that call failed, a set-subnets call iff the
\* live subnets differ from the desired ones as sets; unless one of the two
\* failed, it then reconciles the tags; it issues no create and no delete.
C6_InPlaceReconcile ==
    (EnsureReturned /\ InPlace) =>
        /\ Issued("SetIpAddressType") <=> IpAddressTypeChanged
        /\ Issued("SetSubnets") <=> (SubnetSetChanged /\ ~Failed("SetIpAddressType"))
        /\ (LBTagCalls # {}) <=> (~Failed("SetIpAddressType") /\ ~Failed("SetSubnets"))
        /\ Count("SetIpAddressType") <= 1
        /\ Count("SetSubnets") <= 1
        /\ Cardinality(LBTagCalls) <= 1
        /\ \A i \in CallIndexes("SetIpAddressType") :
              /\ calls[i].arg = svc.annos.LoadBalancer.IPAddressType
              /\ \A j \in CallIndexes("SetSubnets") \cup LBTagCalls : i < j
        /\ \A i \in CallIndexes("SetSubnets") :
              /\ calls[i].arg = lbConfig.Subnets
              /\ \A j \in LBTagCalls : i < j
        /\ \A i \in LBTagCalls : calls[i].arg = DesiredLBTags
        /\ ~Issued("CreateLoadBalancer")
        /\ ~Issued("DeleteLoadBalancer")

\* The in-place path changed the IP address type and the subnets and then
\* reconciled the tags.
C6_Witness ==
    /\ EnsureReturned
    /\ InPlace
    /\ Issued("SetIpAddressType")
    /\ Issued("SetSubnets")
    /\ \E i \in LBTagCalls : calls[i].ok

\* C7 as stated: the Reconcile that follows a successful Reconcile, with no
\* change of the Service or of the cloud in between, issues no mutating call.
C7_AsStated == (op = "Reconcile" /\ prev = "ok") => NoMutatingCall

\* The load balancers that carry the deterministic name of the Service.
NamedLBs == GetLoadBalancerByName(LBName)

\* C8: a create-load-balancer call is issued only by a Reconcile whose lookup
\* by name succeeded and found nothing, or after the successful delete of the
\* load balancer that the lookup found; never two load balancers carry the
\* name of the Service.
C8_OneLBPerName ==
    /\ Cardinality(NamedLBs) <= 1
    /\ op # "Reconcile" => ~Issued("CreateLoadBalancer")
    /\ \A i \in CallIndexes("CreateLoadBalancer") :
          /\ \E j \in 1..(i - 1) : calls[j].op = "GetLoadBalancerByName" /\ calls[j].ok
          /\ \/ found = Nil
             \/ \E j \in 1..(i - 1) : /\ calls[j].op = "DeleteLoadBalancer"
                                      /\ calls[j].ok
                                      /\ calls[j].arg = found.LoadBalancerArn

\* After a Reconcile that deleted the load balancer and failed to create the
\* new one, the next Reconcile created it: one load balancer has the name.
C8_Witness ==
    /\ prev = "recreate-failed"
    /\ op = "Reconcile"
    /\ Issued("CreateLoadBalancer")
    /\ TheCall("CreateLoadBalancer").ok
    /\ Cardinality(NamedLBs) = 1

\* The load balancer of the Service exists with the desired scheme, IP address
\* type and subnets.
Converged ==
    /\ lbConfig # Nil
    /\ \E l \in NamedLBs :
          /\ l.Scheme = svc.annos.LoadBalancer.Scheme
          /\ l.IpAddressType = svc.annos.LoadBalancer.IPAddressType
          /\ l.Subnets = Range(lbConfig.Subnets)

\* The previous Reconcile of the unchanged Service failed; this one has ended
\* and every cloud call of it succeeded.
RetryWithoutCloudFailure ==
    /\ op = "Reconcile"
    /\ pc = "done"
    /\ prev \in {"failed", "recreate-failed"}
    /\ \A i \in 1..Len(calls) : calls[i].ok

\* C9 as stated: after a failed Reconcile, a Reconcile of the unchanged
\* Service in which every cloud call succeeds ends with the load balancer
\* present and as desired.
C9_AsStated == RetryWithoutCloudFailure => Converged

EnsureEntered == \E i \in 1..Len(trace) : trace[i] = "ensure"

\* C9: after a failed Reconcile, a Reconcile of the unchanged Service in which
\* every cloud call succeeds and which loads the annotations, builds and
\* validates the configuration without error ends with the load balancer
\* present under the Service's name with the desired scheme, IP address type
\* and subnets.
C9_ConvergesAfterFailure == (RetryWithoutCloudFailure /\ EnsureEntered) => Converged

\* The Reconcile after a recreation that lost the load balancer found none
\* and created it as desired.
C9_Witness ==
    /\ RetryWithoutCloudFailure
    /\ prev = "recreate-failed"
    /\ EnsureEntered
    /\ found = Nil
    /\ Converged

\* validateLBConfig read a configuration that restricts the scheme and does
\* not list the Service, and the Service wants an internet-facing scheme.
Restricted ==
    /\ op = "Reconcile"
    /\ ctl # Nil
    /\ ctl.RestrictScheme
    /\ svc.annos.LoadBalancer.Scheme = SchemeInternetFacing
    /\ ServiceName \notin Range(ctl.InternetFacingServices[Namespace])

\* C10: with the scheme restriction on, an internet-facing desired scheme and
\* the Service not on the whitelist of its namespace, Reconcile returns an
\* error from the validation and has issued no mutating cloud call.
C10_RestrictedSchemeRejected ==
    Restricted =>
        /\ pc = "done"
        /\ ~result.ok
        /\ result.stage = "validate"
        /\ result.lb = Nil
        /\ NoMutatingCall

\* The Service has an internal load balancer, asks for an internet-facing one
\* without being whitelisted, and Reconcile has returned the error.
C10_Witness ==
    /\ Restricted
    /\ pc = "done"
    /\ \E l \in NamedLBs : l.Scheme = SchemeInternal

(***************************************************************************)
(* Delete.                                                                 *)
(***************************************************************************)
DeleteOps == {"DeleteListeners", "DeleteTargetGroup", "DeleteLoadBalancer"}
DeleteCallIndexes == {i \in 1..Len(calls) : calls[i].op \in DeleteOps}

\* The lookup of Delete has answered.
DeleteLookedUp == op = "Delete" /\ Len(calls) >= 1

\* C11: Delete starts with the lookup of the load balancer by the name of the
\* key.  When the lookup succeeds and finds nothing, Delete returns no error
\* and issues no further call; when the lookup fails, Delete returns an error
\* and issues no further call; a delete call of Delete is issued only after a
\* lookup that found the load balancer.
C11_DeleteOfMissingLB ==
    /\ (op = "Delete" /\ pc \notin {"delete_get"}) => Len(calls) >= 1
    /\ DeleteLookedUp =>
          /\ calls[1].op = "GetLoadBalancerByName" /\ calls[1].arg = LBName
          /\ ~calls[1].ok => (pc = "done" /\ ~result.ok /\ Len(calls) = 1)
          /\ (calls[1].ok /\ Len(calls) = 1 /\ NamedLBs = {}) =>
                (pc = "done" /\ result.ok)
          /\ DeleteCallIndexes # {} =>
                (calls[1].ok /\ instance # Nil /\ instance.LoadBalancerName = LBName)

\* A Delete found no load balancer under the name, although target groups of
\* the Service exist, and returned without error.
C11_Witness ==
    /\ DeleteLookedUp
    /\ calls[1].ok
    /\ NamedLBs = {}
    /\ tgs # {}
    /\ pc = "done"
    /\ result.ok
    /\ Len(calls) = 1

\* The calls of tgGroupController.Delete inside a Delete.
TGDeleteStepIndexes ==
    {i \in 1..Len(calls) : calls[i].op \in {"GetResourcesByTags", "DeleteTargetGroup"}}

\* C12: in a Delete that found the load balancer the calls come in the order
\* listener delete, target group deletes, load balancer delete; the target
\* group step starts only after the listener delete succeeded, and the load
\* balancer delete is issued only after the listener delete succeeded and the
\* target group step ran with every call of it succeeding; each of the
\* listener delete and the load balancer delete is issued at most once, the
\* latter for the load balancer that the lookup found.
C12_DeleteInOrder ==
    op = "Delete" =>
        /\ Count("DeleteListeners") <= 1
        /\ Count("DeleteLoadBalancer") <= 1
        /\ \A i \in CallIndexes("DeleteListeners") : i = 2 /\ calls[1].ok
        /\ \A i \in TGDeleteStepIndexes :
              /\ i > 2
              /\ calls[2].op = "DeleteListeners" /\ calls[2].ok
        /\ \A i \in CallIndexes("DeleteLoadBalancer") :
              /\ i = Len(calls)
              /\ calls[i].arg = instance.LoadBalancerArn
              /\ calls[2].op = "DeleteListeners" /\ calls[2].ok
              /\ calls[3].op = "GetResourcesByTags"
              /\ \A j \in 1..(i - 1) : calls[j].ok
              /\ \A j \in 4..(i - 1) : calls[j].op = "DeleteTargetGroup"

\* A Delete removed the listeners, two target groups and then the load balancer.
C12_Witness ==
    /\ op = "Delete"
    /\ pc = "done"
    /\ result.ok
    /\ Count("DeleteTargetGroup") = 2
    /\ Issued("DeleteLoadBalancer")
    /\ NamedLBs = {}

\* The resources of the key that are left in the cloud: the load balancer of
\* its name (with its listeners) and the target groups tagged as owned by it.
OwnedResourcesRemain == NamedLBs # {} \/ \E t \in tgs : OwnedTG(t)

\* C13: whenever Delete returns without error, no load balancer, listener or
\* target group owned by the key remains in the cloud.
C13_AsStated == (op = "Delete" /\ pc = "done" /\ result.ok) => ~OwnedResourcesRemain

(***************************************************************************)
(* Subnet resolution.                                                      *)
(***************************************************************************)
\* resolveSubnets was applied to an explicit list.
ResolvedExplicit ==
    /\ probe # Nil
    /\ probe.fn = "resolveSubnets"
    /\ probe.out # Nil
    /\ Len(probe.in) > 0

\* The entries of the list that no subnet of the VPC answers to.
UnresolvedEntries ==
    {e \in Range(probe.in) : GetSubnetsByNameOrID(probe.vpc, {e}) = {}}

\* C14: for an explicit subnet list with an entry that resolves to no subnet,
\* the resolution (and with it the build of the configuration) fails, so that
\* no subnet list omitting a requested entry is returned.
C14_AsStated == (ResolvedExplicit /\ UnresolvedEntries # {}) => probe.out.err # ""

\* resolveSubnets was applied to the empty list: auto-discovery.
AutoDiscovered ==
    /\ probe # Nil
    /\ probe.fn = "resolveSubnets"
    /\ probe.out # Nil
    /\ Len(probe.in) = 0

\* The subnet of the probe's VPC with the ID id.
SubnetOfId(id) == CHOOSE sb \in Range(probe.vpc) : sb.SubnetId = id

\* The marker key of the scheme of the probe.
MarkerKey ==
    IF probe.scheme = SchemeInternal THEN TagNameSubnetInternalELB ELSE TagNameSubnetPublicELB

\* C15: subnet auto-discovery fails for a scheme other than internal and
\* internet-facing; when it succeeds, every subnet of the list is a subnet of
\* the VPC tagged with the marker key of the scheme, no two of them lie in the
\* same availability zone, the list has at least two entries and is sorted
\* ascending.
C15_AutoDiscovery ==
    AutoDiscovered =>
        /\ probe.scheme \notin Schemes => probe.out.err # ""
        /\ probe.out.err = "" =>
              LET out == probe.out.subnets
              IN  /\ Len(out) >= 2
                  /\ \A i \in 1..Len(out) :
                        /\ \E sb \in Range(probe.vpc) : sb.SubnetId = out[i]
                        /\ MarkerKey \in SubnetOfId(out[i]).tags
                  /\ \A i, j \in 1..Len(out) :
                        i < j => /\ SubnetOfId(out[i]).AvailabilityZone
                                       # SubnetOfId(out[j]).AvailabilityZone
                                 /\ StrLess(out[i], out[j])

\* Auto-discovery in a VPC with three internal subnets, two of them in one
\* zone, kept the later one of the zone.
C15_Witness ==
    /\ AutoDiscovered
    /\ probe.scheme = SchemeInternal
    /\ Len(probe.vpc) = 4
    /\ probe.out.err = ""
    /\ probe.out.subnets = <<"subnet-2", "subnet-3">>

(***************************************************************************)
(* Health check port resolution.                                           *)
(***************************************************************************)
ResolvedPort ==
    /\ probe # Nil
    /\ probe.fn = "resolveServiceHealthCheckPort"
    /\ probe.out # Nil

\* The ports of the Service that carry the configured name.
PortsNamed == {ServicePorts[i] : i \in {j \in 1..Len(ServicePorts) :
                                           ServicePorts[j].Name = probe.port}}

\* A number written without leading zeros.
Canonical(s) == IsInt(s) /\ (Len(s) = 1 \/ s[1] # "0")

\* What C16 says of the named ports and of the sentinel.
NamedPortResolved ==
    /\ probe.port = DefaultPort =>
          (probe.out.err = "" /\ probe.out.port = probe.port /\ ~probe.out.lookup)
    /\ (~IsInt(probe.port) /\ probe.port # DefaultPort) =>
          /\ probe.out.lookup
          /\ (~probe.serviceFound \/ PortsNamed = {}) => probe.out.err # ""
          /\ (probe.serviceFound /\ PortsNamed # {}) =>
                \E p \in PortsNamed :
                    IF probe.targetType = TargetTypeEnumInstance
                    THEN IF p.NodePort = 0 THEN probe.out.err # ""
                         ELSE /\ probe.out.err = ""
                              /\ Canonical(probe.out.port)
                              /\ Atoi(probe.out.port) = p.NodePort
                    ELSE probe.out.err = "" /\ probe.out.port = p.TargetPort

TGReturned == op = "TGReconcile" /\ pc = "done"

\* The health check port that the annotations of the Service resolve to.
DesiredHealthCheckPort ==
    resolveServiceHealthCheckPort(TRUE, ServicePorts, svc.annos.HealthCheck.Port,
                                  svc.annos.TargetGroup.TargetType).port

\* A diffed field of the live target group t differs from the desired state.
LiveDiffers(t) ==
    \/ /\ IsHttp(svc.annos.HealthCheck.Protocol)
       /\ \/ t.HealthCheckPath # svc.annos.HealthCheck.Path
          \/ t.Matcher # svc.annos.TargetGroup.SuccessCodes
    \/ t.HealthCheckPort # DesiredHealthCheckPort
    \/ t.HealthCheckProtocol # svc.annos.HealthCheck.Protocol
    \/ t.HealthCheckIntervalSeconds # svc.annos.HealthCheck.IntervalSeconds
    \/ t.HealthyThresholdCount # svc.annos.TargetGroup.HealthyThresholdCount
    \/ t.UnhealthyThresholdCount # svc.annos.TargetGroup.UnhealthyThresholdCount

\* C17: for a target group that already exists, Reconcile issues a modify
\* call if and only if a diffed field of the live group differs from the
\* desired state, the desired health check port being the resolved one; it
\* issues at most one modify call.
C17_AsStated ==
    (TGReturned /\ found # Nil) =>
        /\ Count("ModifyTargetGroup") <= 1
        /\ Issued("ModifyTargetGroup") <=> LiveDiffers(found)

\* The lookup by name of Reconcile(service, backend) has answered.
TGLookedUp == TGReturned /\ Len(calls) >= 1 /\ calls[1].ok

\* C18: Reconcile(service, backend) never issues a delete-target-group call;
\* when the lookup by name finds no group it issues exactly one create call,
\* for the looked-up name and with the placeholder port 1, and no modify
\* call; when the lookup finds a group it issues no create call.
C18_CreateOrModifyNeverDelete ==
    op = "TGReconcile" =>
        /\ ~Issued("DeleteTargetGroup")
        /\ (TGLookedUp /\ found = Nil) =>
              /\ Count("CreateTargetGroup") = 1
              /\ TheCall("CreateTargetGroup").arg.TargetGroupName = calls[1].arg
              /\ TheCall("CreateTargetGroup").arg.Port = 1
              /\ ~Issued("ModifyTargetGroup")
        /\ (TGLookedUp /\ found # Nil) =>
              /\ found.TargetGroupName = calls[1].arg
              /\ ~Issued("CreateTargetGroup")
        /\ ~TGLookedUp => (~Issued("CreateTargetGroup") /\ ~Issued("ModifyTargetGroup"))

\* The lookup found no group and Reconcile created it; an earlier run had
\* left a group of another name, which stays.
C18_Witness ==
    /\ TGLookedUp
    /\ found = Nil
    /\ result.ok
    /\ TheCall("CreateTargetGroup").ok
    /\ Cardinality(tgs) = 2

\* The step of Reconcile(service, backend) that issues the call o: lookup,
\* create or modify, tags, attributes, targets.
TGStepOf(o) ==
    IF o = "GetTargetGroupByName" THEN 1
    ELSE IF o \in {"CreateTargetGroup", "ModifyTargetGroup"} THEN 2
    ELSE IF o \in {"AddTags", "DescribeTags"} THEN 3
    ELSE IF o = "DescribeTargetGroupAttributes" THEN 4
    ELSE IF o = "DescribeTargetHealth" THEN 5
    ELSE 0

\* The health-check port of the Service does not resolve although the Service
\* is found.
TGPortUnresolvable ==
    resolveServiceHealthCheckPort(TRUE, ServicePorts, svc.annos.HealthCheck.Port,
                                  svc.annos.TargetGroup.TargetType).err # ""

\* C19: at the return of Reconcile(service, backend) the steps taken are in
\* the order lookup, create or modify, tags, attributes, targets, and only the
\* last call issued can have failed; the result is a target group exactly
\* when every step through the targets succeeded, and otherwise it is an
\* error with the empty TargetGroup value; when the health-check port does not
\* resolve no cloud call at all has been issued.
C19_FailureAbortsReconcile ==
    TGReturned =>
        /\ \A i \in 1..Len(calls) : TGStepOf(calls[i].op) # 0
        /\ \A i \in 1..(Len(calls) - 1) :
              /\ calls[i].ok
              /\ TGStepOf(calls[i].op) < TGStepOf(calls[i + 1].op)
        /\ result.ok <=> /\ calls # <<>>
                         /\ calls[Len(calls)].ok
                         /\ TGStepOf(calls[Len(calls)].op) = 5
        /\ ~result.ok => result.tg = EmptyTargetGroup
        /\ result.ok => result.tg # EmptyTargetGroup
        /\ TGPortUnresolvable => (calls = <<>> /\ ~result.ok)

\* The tag reconciliation failed after the group was created: Reconcile
\* returned the error and the empty value and went no further.
C19_Witness ==
    /\ TGReturned
    /\ ~result.ok
    /\ result.tg = EmptyTargetGroup
    /\ Len(calls) = 3
    /\ calls[2].op = "CreateTargetGroup"
    /\ calls[2].ok
    /\ TGStepOf(calls[3].op) = 3
    /\ ~calls[3].ok

\* buildActions has been applied to a backend.
BuiltActions == probe # Nil /\ probe.fn = "buildActions" /\ probe.out # Nil

\* The backend of the probe is marked use-annotation.
MarkedUseAnnotation ==
    /\ probe.backend.ServicePort.Type = "String"
    /\ probe.backend.ServicePort.StrVal = UseActionAnnotation

\* C20: buildActions on a backend marked use-annotation returns exactly the
\* action declared under the backend's service name, numbered 1, and fails
\* when none is declared; on any other backend it returns exactly one forward
\* action, numbered 1, whose target group ARN and whose only forward-config
\* target group are the ARN of the backend's entry in the TargetGroupGroup,
\* and fails when the group has no entry for the backend.
C20_BuildActions ==
    BuiltActions =>
        IF MarkedUseAnnotation
        THEN IF probe.backend.ServiceName \in DOMAIN probe.annos.Action.Actions
             THEN /\ probe.out.err = ""
                  /\ probe.out.actions =
                        <<[probe.annos.Action.Actions[probe.backend.ServiceName]
                              EXCEPT !.Order = <<1>>]>>
             ELSE probe.out.err # "" /\ probe.out.actions = <<>>
        ELSE IF probe.backend \in DOMAIN probe.tgGroup.TGByBackend
             THEN /\ probe.out.err = ""
                  /\ Len(probe.out.actions) = 1
                  /\ probe.out.actions[1].Type = <<"forward">>
                  /\ probe.out.actions[1].TargetGroupArn =
                        <<probe.tgGroup.TGByBackend[probe.backend].Arn>>
                  /\ Len(probe.out.actions[1].ForwardConfig) = 1
                  /\ probe.out.actions[1].ForwardConfig[1].TargetGroups =
                        <<[TargetGroupArn |-> <<probe.tgGroup.TGByBackend[probe.backend].Arn>>]>>
                  /\ probe.out.actions[1].Order = <<1>>
             ELSE probe.out.err # "" /\ probe.out.actions = <<>>

\* A backend marked use-annotation got the action declared for its Service,
\* although the TargetGroupGroup holds an entry for that very backend.
C20_Witness ==
    /\ BuiltActions
    /\ MarkedUseAnnotation
    /\ probe.backend \in DOMAIN probe.tgGroup.TGByBackend
    /\ probe.out.err = ""
    /\ Len(probe.out.actions) = 1
    /\ probe.out.actions[1].TargetGroupArn = <<<<"legacy", "tg", "arn">>>>
    /\ probe.annos.Action.Actions[probe.backend.ServiceName].Order = <<5>>

\* The positions of the forward actions in the list that buildActions returned.
ForwardPositions ==
    {i \in 1..Len(probe.out.actions) : probe.out.actions[i].Type = <<"forward">>}

\* C21: the action list that buildActions returns is numbered by position,
\* the action at position i carrying the order i, so that the orders are
\* exactly 1..N without gap or repeat, and it holds at most one forward action.
C21_ActionsNumberedFromOne ==
    BuiltActions =>
        /\ \A i \in 1..Len(probe.out.actions) : probe.out.actions[i].Order = <<i>>
        /\ Cardinality(ForwardPositions) <= 1
        /\ probe.out.err = "" => Len(probe.out.actions) >= 1

\* The declared action of a backend marked use-annotation carried the order 5
\* and a forward configuration; the list returned numbers it 1.
C21_Witness ==
    /\ BuiltActions
    /\ MarkedUseAnnotation
    /\ probe.out.err = ""
    /\ probe.annos.Action.Actions[probe.backend.ServiceName].Order = <<5>>
    /\ probe.annos.Action.Actions[probe.backend.ServiceName].ForwardConfig # <<>>
    /\ probe.tgGroup.TGByBackend = <<>>
    /\ probe.out.actions[1].Order = <<1>>

\* NameLB has been applied to a prefix, a namespace and a service name.
NamedLB == probe # Nil /\ probe.fn = "NameLB" /\ probe.out # Nil

\* The prefix with each character outside [[:alnum:]] replaced by a hyphen.
HyphenatedPrefix ==
    [i \in 1..Len(probe.prefix) |->
        IF IsAlnum(probe.prefix[i]) THEN probe.prefix[i] ELSE "-"]

\* The first n characters of s, all of s when it has fewer.
FirstChars(s, n) == SubSeq(s, 1, IF Len(s) < n THEN Len(s) ELSE n)

\* "-" and the first four hexadecimal digits of the hash of namespace + serviceName.
HashSuffix == <<"-">> \o FirstChars(md5hex(probe.namespace \o probe.serviceName), 4)

\* C22 as stated: the name is the hyphenated prefix, "-", and the namespace
\* and the service name without their non-alphanumeric characters directly
\* one after the other, cut to 26 characters, followed by the hash suffix.
C22_AsStated ==
    NamedLB =>
        probe.out = FirstChars(HyphenatedPrefix \o <<"-">>
                               \o SelectSeq(probe.namespace, IsAlnum)
                               \o SelectSeq(probe.serviceName, IsAlnum), 26)
                    \o HashSuffix

\* C22: the name is the hyphenated prefix, "-", the namespace without its
\* non-alphanumeric characters, "-", the service name without its
\* non-alphanumeric characters, cut to 26 characters, followed by "-" and the
\* first four hexadecimal digits of the hash of namespace + serviceName.
C22_NameLBFormat ==
    NamedLB =>
        probe.out = FirstChars(HyphenatedPrefix \o <<"-">>
                               \o SelectSeq(probe.namespace, IsAlnum) \o <<"-">>
                               \o SelectSeq(probe.serviceName, IsAlnum), 26)
                    \o HashSuffix

\* A name with characters replaced in the prefix and removed from the
\* namespace and the service name, short enough to be kept whole.
C22_Witness ==
    /\ NamedLB
    /\ probe.prefix = <<"n", "_", "l", ".", "b">>
    /\ probe.namespace = <<"k", "u", "b", "e", "-", "s", "y", "s">>
    /\ probe.serviceName = <<"m", "y", ".", "s", "v", "c", "-", "1">>
    /\ SubSeq(probe.out, 1, 20) = <<"n", "-", "l", "-", "b", "-", "k", "u", "b", "e", "s", "y", "s",
                                    "-", "m", "y", "s", "v", "c", "1">>
    /\ Len(probe.out) = 25

\* C23: the part of the name before the hash suffix has at most 26
\* characters and the whole name at most 31, whatever the lengths of the
\* prefix, the namespace and the service name.
C23_NameLBLength ==
    NamedLB =>
        /\ Len(probe.out) <= 31
        /\ Len(probe.out) >= 5
        /\ SubSeq(probe.out, Len(probe.out) - 4, Len(probe.out)) = HashSuffix
        /\ Len(probe.out) - Len(HashSuffix) <= 26

\* A prefix and a service name of MaxStrLen characters each: the name has
\* exactly 31 characters.
C23_Witness ==
    /\ NamedLB
    /\ Len(probe.prefix) = MaxStrLen
    /\ Len(probe.serviceName) = MaxStrLen
    /\ Len(probe.out) = 31

\* The tags of the load balancer or of a target group have been built.
BuiltTags == probe # Nil /\ probe.fn = "buildTags" /\ probe.out # Nil

\* The tag map t carries the value v under the key k.
Carries(t, k, v) == k \in DOMAIN t /\ t[k] = v

\* C24 as stated: every tag map built for the load balancer or a target group
\* of the Service maps the cluster-ownership key to owned, the namespace key
\* to the namespace and the service-name key to the name of the Service,
\* whatever the default tags and the annotation tags; the map of a target
\* group also carries the service port of its backend.
C24_AsStated ==
    BuiltTags =>
        /\ Carries(probe.out, ClusterTagKey, Owned)
        /\ Carries(probe.out, TagKeyNamespace, Namespace)
        /\ Carries(probe.out, TagKeyServiceName, ServiceName)
        /\ probe.kind = "TargetGroup" =>
              Carries(probe.out, TagKeyServicePort, probe.backend.ServicePort)

\* A handler has run; watch.last is its event and watch.added what it enqueued.
EventHandled == watch # Nil /\ watch.last # Nil

\* The request r is the one of the Service object s.
RequestOf(r, s) == r = [Namespace |-> s.Namespace, Name |-> s.Name]

\* The Service objects a handler looked at: those of a Service event, the
\* Services of the cache for an Endpoints or Node event.
ServicesLookedAt ==
    IF watch.last.kind = "Service"
    THEN {watch.last.objs[i] : i \in 1..Len(watch.last.objs)}
    ELSE watch.cache

\* C25: every request a handler of Service, Endpoints or Node events has
\* enqueued is the request of a Service object it looked at whose class is
\* the controller's; a handler that looked only at Services outside the class
\* has enqueued nothing.
C25_OnlyServicesOfTheClass ==
    EventHandled =>
        /\ \A i \in 1..Len(watch.added) :
              \E s \in ServicesLookedAt :
                  s.Class = ServiceClass /\ RequestOf(watch.added[i], s)
        /\ (\A s \in ServicesLookedAt : s.Class # ServiceClass) => watch.added = <<>>

\* An Endpoints event of a namespace holding a Service of the class and one
\* outside it: one request, for the Service of the class.
C25_Witness ==
    /\ EventHandled
    /\ watch.last.kind = "Endpoints"
    /\ watch.last.ns = Namespace
    /\ \E s \in watch.cache :
          s.Namespace = Namespace /\ s.Name = ServiceName /\ s.Class # ServiceClass
    /\ watch.added = <<[Namespace |-> Namespace, Name |-> OtherServiceName]>>

\* The handler of Endpoints update events has run.
EndpointsUpdated ==
    EventHandled /\ watch.last.kind = "Endpoints" /\ watch.last.type = "Update"

\* The requests of the Services of the class in the namespace ns of the cache.
RequestsOfNamespace(ns) ==
    {[Namespace |-> s.Namespace, Name |-> s.Name] :
        s \in {t \in watch.cache : t.Namespace = ns /\ t.Class = ServiceClass}}

\* The requests the last handler enqueued, as a set.
AddedSet == {watch.added[i] : i \in 1..Len(watch.added)}

\* C26 as stated: an Endpoints update enqueues nothing when the subsets of
\* the old and the new object are equal, and when they differ it enqueues a
\* request for every Service of the class in the namespace of the Endpoints
\* object and for no other Service.
C26_AsStated ==
    EndpointsUpdated =>
        IF watch.last.differ
        THEN AddedSet = RequestsOfNamespace(watch.last.ns)
        ELSE watch.added = <<>>

\* C26: an Endpoints update enqueues nothing when the subsets of the old and
\* the new object are equal; when they differ and the listing of the Services
\* of the namespace succeeds, it enqueues exactly one request for every
\* Service of the class in that namespace and none for another Service; when
\* they differ and the listing fails, it enqueues nothing.
C26_EndpointsUpdate ==
    EndpointsUpdated =>
        IF watch.last.differ /\ watch.last.listOk
        THEN /\ AddedSet = RequestsOfNamespace(watch.last.ns)
             /\ Len(watch.added) = Cardinality(AddedSet)
        ELSE watch.added = <<>>

\* The subsets differed in the namespace default, which holds two Services
\* of the class, while kube/foo is in the cache too: two requests.
C26_Witness ==
    /\ EndpointsUpdated
    /\ watch.last.differ
    /\ watch.last.listOk
    /\ watch.last.ns = Namespace
    /\ Cardinality(watch.cache) = 3
    /\ Len(watch.added) = 2

\* The requests of the Services of the class that the last event can affect:
\* the Service of a Service event, the Services of the namespace of an
\* Endpoints event, every Service for a Node event.
RequestsAffected ==
    IF watch.last.kind = "Service"
    THEN {[Namespace |-> s.Namespace, Name |-> s.Name] :
            s \in {t \in ServicesLookedAt : t.Class = ServiceClass}}
    ELSE IF watch.last.kind = "Endpoints"
    THEN RequestsOfNamespace(watch.last.ns)
    ELSE {[Namespace |-> s.Namespace, Name |-> s.Name] :
            s \in {t \in watch.cache : t.Class = ServiceClass}}

\* C27 as stated, for handlers whose listing of the Services succeeded: after
\* the handler of a create, update or delete event that changed the object,
\* a request is enqueued for every Service of the class the event can affect
\* (for a Node event: every Service of the class).
C27_AsStated ==
    (/\ EventHandled
     /\ watch.last.type \in {"Create", "Update", "Delete"}
     /\ watch.last.differ
     /\ watch.last.listOk)
        => RequestsAffected \subseteq AddedSet

\* The (namespace, service name) key of a request.
KeyOf(r) == <<r.Namespace, r.Name>>

\* The workers with a Reconcile or Delete in flight.
BusyWorkers == {w \in 1..MaxWorkers : watch.inflight[w] # Nil}

\* C28: no two workers have a Reconcile or Delete of the same (namespace,
\* service name) key in flight; a key waits in the queue at most once and not
\* while it is in flight; a key enqueued while in flight is remembered and is
\* neither queued nor handed to another worker before its processing is done.
C28_OneInFlightPerKey ==
    watch # Nil =>
        /\ \A v, w \in BusyWorkers :
              KeyOf(watch.inflight[v]) = KeyOf(watch.inflight[w]) => v = w
        /\ \A i, j \in 1..Len(watch.queue) :
              KeyOf(watch.queue[i]) = KeyOf(watch.queue[j]) => i = j
        /\ \A i \in 1..Len(watch.queue) : \A w \in BusyWorkers :
              KeyOf(watch.queue[i]) # KeyOf(watch.inflight[w])
        /\ \A r \in watch.dirty :
              (\E i \in 1..Len(watch.queue) : watch.queue[i] = r)
                 # (\E w \in BusyWorkers : watch.inflight[w] = r)

\* default/foo is in flight and was enqueued again meanwhile: it waits
\* outside the queue although a worker is free.
C28_Witness ==
    /\ watch # Nil
    /\ watch.inflight[1] = [Namespace |-> Namespace, Name |-> ServiceName]
    /\ watch.inflight[2] = Nil
    /\ [Namespace |-> Namespace, Name |-> ServiceName] \in watch.dirty
    /\ watch.queue = <<>>
    /\ watch.last.kind = "Node"

\* The calls that the target group controller issued for the backend at
\* which tgGroupController.Reconcile failed: those after the last completed
\* Reconcile(service, backend), which ends with the targets step.
RECURSIVE CallsOfFailedBackend(_)
CallsOfFailedBackend(cs) ==
    IF cs = <<>> THEN <<>>
    ELSE IF cs[Len(cs)].stage # "targetgroups" \/ cs[Len(cs)].op = "DescribeTargetHealth"
    THEN <<>>
    ELSE Append(CallsOfFailedBackend(SubSeq(cs, 1, Len(cs) - 1)), cs[Len(cs)])

\* C29: a Reconcile of the load balancer controller that failed to load the
\* annotations of the Service returned the error having entered no other
\* stage and issued no cloud call; a Reconcile(service, backend) of the
\* target group controller that failed to load them returned the error
\* having issued no cloud call for its backend.
C29_NoAnnotationsNoCloudCall ==
    (op = "Reconcile" /\ pc = "done" /\ ~result.ok) =>
        /\ result.stage = "annotations" =>
              /\ calls = <<>>
              /\ trace = <<"annotations">>
              /\ result.lb = Nil
        /\ (result.stage = "targetgroups" /\ result.cause = "store") =>
              CallsOfFailedBackend(calls) = <<>>

\* The load balancer controller found no annotations for the Service while
\* the load balancer of an earlier Reconcile exists: it returned at once.
C29_Witness ==
    /\ op = "Reconcile"
    /\ pc = "done"
    /\ ~result.ok
    /\ result.stage = "annotations"
    /\ calls = <<>>
    /\ \E l \in lbs : l.LoadBalancerName = LBName

\* The position in calls of the successful DeleteLoadBalancer of a recreate
\* that was followed by a successful CreateLoadBalancer (0 when there is none).
RecreatedAt ==
    IF \E d \in 1..(Len(calls) - 1) :
          /\ calls[d].op = "DeleteLoadBalancer" /\ calls[d].ok
          /\ calls[d + 1].op = "CreateLoadBalancer" /\ calls[d + 1].ok
    THEN CHOOSE d \in 1..(Len(calls) - 1) :
          /\ calls[d].op = "DeleteLoadBalancer" /\ calls[d].ok
          /\ calls[d + 1].op = "CreateLoadBalancer" /\ calls[d + 1].ok
    ELSE 0

\* The load balancers of the cloud that carry the name the recreate created.
RecreatedLBs == {l \in lbs : l.LoadBalancerName = calls[RecreatedAt + 1].arg.Name}

\* C30: after a recreate (the old load balancer deleted, a new one created)
\* the instance that the rest of Reconcile works on is the newly created load
\* balancer: the attributes are reconciled on its ARN, the listeners are set
\* on it, the returned Arn and DNSName are its own, and the ARN of the
\* deleted load balancer appears in no later call and names nothing in the cloud.
C30_RecreateUsesNewInstance ==
    (op = "Reconcile" /\ RecreatedAt > 0) =>
        LET deleted == calls[RecreatedAt].arg
        IN  /\ instance.LoadBalancerArn # deleted
            /\ RecreatedLBs # {}
            /\ \A l \in RecreatedLBs : l.LoadBalancerArn = instance.LoadBalancerArn
            /\ \A l \in lbs : l.LoadBalancerArn # deleted
            /\ \A i \in (RecreatedAt + 2)..Len(calls) :
                  /\ calls[i].op = "DescribeLoadBalancerAttributes" =>
                        /\ calls[i].arg = instance.LoadBalancerArn
                        /\ calls[i].arg # deleted
                  /\ (calls[i].stage = "listeners" /\ calls[i].ok) =>
                        \A l \in RecreatedLBs : l.Listeners = calls[i].arg
                  /\ calls[i].op # "DeleteLoadBalancer"
            /\ (pc = "done" /\ result.ok) =>
                  /\ result.lb.Arn = instance.LoadBalancerArn
                  /\ result.lb.Arn # deleted
                  /\ result.lb.DNSName = instance.DNSName
                  /\ result.lb.DNSName # <<"dns", deleted>>

\* A Reconcile that recreated the load balancer has returned the new one.
C30_Witness ==
    /\ op = "Reconcile" /\ pc = "done" /\ result.ok
    /\ RecreatedAt > 0
    /\ \E i \in 1..Len(calls) : calls[i].op = "DescribeLoadBalancerAttributes" /\ calls[i].ok
    /\ \E i \in 1..Len(calls) : calls[i].stage = "listeners" /\ calls[i].ok
    /\ result.lb.Arn # calls[RecreatedAt].arg

\* The Service handler has run on an update event whose old and new objects
\* are the same object (no field changed).
ServiceUpdatedToItself ==
    /\ EventHandled
    /\ watch.last.kind = "Service"
    /\ watch.last.type = "Update"
    /\ ~watch.last.differ

\* C31 as stated: a Service update event whose old and new objects are
\* identical adds no reconcile request to the queue.
C31_AsStated == ServiceUpdatedToItself => watch.added = <<>>

\* The actions annotations of a Service have been parsed.
ParsedActions == probe # Nil /\ probe.fn = "Parse" /\ probe.out # Nil

\* The names under which the probed Service declares an action.
DeclaredNames == {e.key : e \in {x \in probe.annotations : x.group = "actions"}}

StoreCaughtUp == watch # Nil /\ watch.toStore = <<>>

\* C33 as stated: once the handler of the store has taken every notification,
\* the annotation store holds an entry for the key only if the Service object
\* observed last exists and is in the class of the controller.
C33_AsStated ==
    (StoreCaughtUp /\ watch.annotations # <<>>) =>
        /\ watch.seen # <<>>
        /\ IsValidService(ServiceClass, watch.seen[1])

\* A Reconcile that a Service add or update event caused has loaded the
\* annotations of the key.
ReconcileReadAnnotations ==
    /\ watch # Nil
    /\ watch.read # <<>>
    /\ watch.read[1].cause > 0

\* C34 as stated: when the Reconcile that an add or update event of a
\* Service of the class caused loads the annotations of the key, the store
\* holds annotations extracted from the version of that event or a later one.
C34_AsStated ==
    ReconcileReadAnnotations =>
        /\ watch.read[1].annotations # <<>>
        /\ watch.read[1].annotations[1].Generation >= watch.read[1].cause

\* C35 as stated: for every target group that the controller created and
\* every annotation set, TGInstanceNeedsModification returns a boolean; it
\* does not fault on a group that carries no matcher.
C35_AsStated ==
    (probe # Nil /\ probe.fn = "TGInstanceNeedsModification" /\ probe.out # Nil) =>
        probe.out.needsChange \in {"modify", "keep"}

\* The load balancers of two Services have been named under one prefix.
NamedLBPair == probe # Nil /\ probe.fn = "NameLBPair" /\ probe.out # Nil

\* The hash of the probe does not collide: the two strings hashed are the
\* same string or their hashes differ.
HashCollisionFree ==
    \/ probe.a.namespace \o probe.a.serviceName = probe.b.namespace \o probe.b.serviceName
    \/ md5hex(probe.a.namespace \o probe.a.serviceName)
          # md5hex(probe.b.namespace \o probe.b.serviceName)

\* C36 as stated: under one prefix and with a hash that does not collide on
\* distinct strings, two Services that differ in namespace or name get
\* different load balancer names.
C36_AsStated ==
    (NamedLBPair /\ HashCollisionFree /\ probe.a # probe.b) => probe.out.a # probe.out.b

\* The Service handler has run on an update that moved the Service out of the
\* class: the old object is in the class, the new one is not.
MovedOutOfClass ==
    /\ EventHandled
    /\ watch.last.kind = "Service"
    /\ watch.last.type = "Update"
    /\ watch.last.objs[1].Class = ServiceClass
    /\ watch.last.objs[2].Class # ServiceClass

\* The request of the Service that the last event is about.
RequestOfLast == Request(watch.last.objs[1])

\* A worker has taken the request of default/foo and no later event has
\* added it again.
TakenByWorker ==
    /\ watch # Nil
    /\ Request(ServiceVersion(ServiceClass, 1)) \in watch.processing
    /\ Request(ServiceVersion(ServiceClass, 1)) \notin watch.dirty

\* C37: the handler of an update that moves a Service out of the class hands
\* the request of its key to the queue, where it waits to be taken (a step
\* that leaves the workers as they are is the step of a handler), and with
\* workers that keep taking requests a worker takes the waiting request.
C37_OutOfClassUpdateIsReconciled ==
    /\ [][(MovedOutOfClass' /\ watch'.inflight = watch.inflight) =>
            /\ RequestOfLast' \in AddedSet'
            /\ RequestOfLast' \in watch'.dirty
            /\ RequestOfLast' = Request(ServiceVersion(ServiceClass, 1))]_vars
    /\ ((MovedOutOfClass /\ RequestOfLast \in watch.dirty) ~> TakenByWorker)

\* The update that moved default/foo out of the class has put its request in
\* an empty queue, the cache holding the Service outside the class.
C37_Witness ==
    /\ MovedOutOfClass
    /\ watch.queue = <<RequestOfLast>>
    /\ watch.processing = {}
    /\ \E s \in watch.cache : RequestOf(RequestOfLast, s) /\ s.Class # ServiceClass

\* C38: whatever the prefix, the namespace and the service name hold, the
\* name of the load balancer is made of ASCII letters, digits and hyphens.
C38_NameLBCharacters ==
    NamedLB =>
        \A i \in 1..Len(probe.out) :
            probe.out[i] \in Range(Letters) \cup Range(UpperLetters) \cup Range(Digits) \cup {"-"}

\* A prefix and a service name that hold a character outside ASCII and
\* punctuation have been turned into a name.
C38_Witness ==
    /\ NamedLB
    /\ probe.prefix = <<"n", "U+00E9", "B">>
    /\ probe.serviceName = <<"U+00E9", "x", "/", "9">>
    /\ probe.namespace = <<"k", "u", "b", "e", "-", "s", "y", "s">>
    /\ SubSeq(probe.out, 1, 14) = <<"n", "-", "B", "-", "k", "u", "b", "e", "s", "y", "s", "-", "x", "9">>

\* The tags of two Services have been built by one generator.
BuiltTagsOfTwoServices == probe # Nil /\ probe.fn = "TagSharing" /\ probe.out # Nil

\* The tags of a Service without annotation tags under the probed defaults.
PlainTags(serviceName) ==
    IF probe.kind = "LoadBalancer"
    THEN TagLB(probe.defaultTags, Namespace, serviceName)
    ELSE MapAssignAll(TagTGGroup(probe.defaultTags, Namespace, serviceName),
                      TagTG(BackendA.ServiceName, BackendA.ServicePort))

\* C39: every build of the tags returns a map of its own, none of them the
\* map of the default tags, which stays as configured; the map built for one
\* Service is not changed by a later build; and the tags built for another
\* Service, or for the same Service once its annotation tags are gone, are
\* the defaults with the tags of that Service and hold no annotation tag of
\* the first build.
C39_NoSharedTagMaps ==
    BuiltTagsOfTwoServices =>
        /\ probe.out.heap[1] = probe.defaultTags
        /\ Cardinality({1, probe.out.first, probe.out.second, probe.out.third}) = 4
        /\ probe.out.heap[probe.out.first] = probe.out.firstTags
        /\ probe.out.firstTags = MapAssignAll(PlainTags(ServiceName),
                                              probe.annos.Tags.LoadBalancer)
        /\ probe.out.heap[probe.out.second] = PlainTags(OtherServiceName)
        /\ probe.out.heap[probe.out.third] = PlainTags(ServiceName)

\* The first Service has an annotation tag that the defaults do not hold:
\* its tags carry it, those of the second Service do not.
C39_Witness ==
    /\ BuiltTagsOfTwoServices
    /\ "team" \in DOMAIN probe.annos.Tags.LoadBalancer
    /\ "team" \notin DOMAIN probe.defaultTags
    /\ "team" \in DOMAIN probe.out.firstTags
    /\ "team" \notin DOMAIN probe.out.heap[probe.out.second]
    /\ "team" \notin DOMAIN probe.out.heap[probe.out.third]

====
